---- MODULE Spec2Model ----
(***************************************************************************)
(* BeeWork full pipeline (src/shared/full_pipeline.py): run_tasks and its  *)
(* research and review worker threads, as a state machine.                 *)
(*                                                                         *)
(* One action is one step of one thread between two points at which other  *)
(* threads can observe or change shared state: a queue operation, a        *)
(* critical section of review_lock, an Event operation, the end of an      *)
(* external call.  The external research and review calls are black boxes  *)
(* whose outcome (return, raise, still running at the deadline) is chosen  *)
(* nondeterministically.                                                   *)
(***************************************************************************)
EXTENDS Integers, Sequences, FiniteSets, TLC

\* ------------------------------------------------------------------ bounds
MaxTasks == 2
MaxCalls == 2
MaxRuns == 2

\* ------------------------------------------------------- program constants
NUM_GEMINI_KEYS == 5
num_research == 2
num_review == 2

Paths == {"docs/a.md", "docs/b.md"}

ResearchWorkers == 1..num_research
ReviewWorkers == 1..num_review

\* None, as the end-of-work sentinel in research_q and as "no task".
None == 0

VARIABLES
    research_tasks,      \* run_tasks argument: the file_path of each task, in order
    research_q,          \* queue.Queue of task positions and None sentinels
    review_q,            \* queue.Queue of review items
    files_under_review,  \* set of locked file paths
    review_done,         \* threading.Event
    cpc,                 \* position of the coordinator (run_tasks)
    sentinels_put,       \* iterations done of the sentinel loop
    rpc, rtask,          \* research worker: position, current task
    vpc, vtask,          \* review worker: position, current item
    deferred,            \* review worker: private deferred list
    scan,                \* review worker: position of _take_unlocked's loop
    abandoned,           \* external calls still running after their timeout
    research_calls,      \* history: research invocations per task
    research_result,     \* history: what _run_with_timeout gave for the task
    review_calls,        \* history: review invocations per task
    review_result,       \* history: what _run_with_timeout gave for the review
    enqueued,            \* history: review items put per task
    via_deferred         \* review worker: its task came from _take_unlocked

\* One worker's timeout-guarded call, thread by thread (_run_with_timeout):
\* a record with the fields
\*   worker_kind  "research" or "review": whose loop runs the calls
\*   wpc          position of the worker in its loop and in the guard
\*   t_alive      t.is_alive() of the current call's daemon thread
\*   result       the dict _wrapper fills: {}, value, or error
\*   timed_out    the branch of line 55 was taken for the current call
\*   ret          what _run_with_timeout returned to the worker
\*   log          lines printed and events sent for the current call
\*   calls        calls started by the worker
\*   stale        daemon threads of abandoned calls still running
\*   puts         review items put by the worker
\*   records      history: per finished call, what was written for it
VARIABLES guard

\* Invocations of the command line (main, run_pipeline) for one run: a
\* record with the fields
\*   invocation        how many times main has been started
\*   session_id        whether --session-id is given (telemetry is on)
\*   ppc               position in main / run_pipeline; "exited": no process
\*   tasks             topics of the tasks orchestrate returned this time
\*   p_research        per topic: outcome of its research call this time
\*   p_review          per topic: outcome of its review call this time
\*   telemetry_status  the session status last posted by telemetry.status
\*   exit_status       exit status of the process, once it has exited
\*   stored            history: per topic, what earlier invocations achieved
VARIABLES pipe

\* One call of run_pipeline seen from outside the process: the environment
\* it reads, the globals of the telemetry module, the HTTP posts and the
\* external calls it makes, the agent process that orchestrate observes. A
\* record with the fields
\*   environ        os.environ restricted to REQUIRED_ENV_VARS
\*   convex_site_url, beework_secret_key   os.environ, the telemetry settings
\*   session_arg    the session_id argument of run_pipeline is given
\*   session_id, site_url, secret          telemetry._session_id, ._site_url, ._secret
\*   buf            number of lines in telemetry._buf
\*   flush_thread   the daemon thread of _flush_loop: "none", "running", "ended"
\*   stop           telemetry._stop is set
\*   disabled_printed   init printed that telemetry is disabled
\*   posts          the requests.post calls made, in order
\*   post_failed    history: some requests.post raised
\*   external       the orchestrate / research / review calls made, in order
\*   raised         the exception that left run_pipeline, or "none"
\*   message        the variable names in the EnvironmentError's message
\*   rpc            position in run_pipeline
\*   opc            position in observe_agent_events
\*   events         events still to come on the agent's output stream
\*   step_stack     number of open llm_step spans
\*   trace_error    history: a Laminar call raised
\*   returncode     proc.returncode of the agent process
\*   agent_rc       what observe_agent_events returned
\*   tasks          the topics of the tasks orchestrate returned
\*   ids            the research_agent_id assigned to each task
VARIABLES run

\* The review workers with review_lock made explicit: a record with the
\* fields
\*   review_q            queue.Queue of review items
\*   files_under_review  set of locked file paths
\*   review_lock         the worker that holds the lock, 0 when it is free
\*   done_event          threading.Event
\*   lpc                 per worker: position in review_worker / _take_unlocked
\*   task                per worker: the item in hand
\*   deferred            per worker: private deferred list
\*   k                   per worker: index of _take_unlocked's loop, 0 outside
VARIABLES locking

\* The variables outside run_tasks and its worker threads.
outerVars == <<guard, pipe, run, locking>>

runTasksVars ==
    <<research_tasks, research_q, review_q, files_under_review, review_done,
      cpc, sentinels_put, rpc, rtask, vpc, vtask, deferred, scan, abandoned,
      research_calls, research_result, review_calls, review_result,
      enqueued, via_deferred>>

vars == <<runTasksVars, outerVars>>

coordVars == <<cpc, sentinels_put>>
researchVars == <<rpc, rtask>>
reviewVars == <<vpc, vtask, deferred, scan, via_deferred>>
histVars == <<research_calls, research_result, review_calls, review_result,
             enqueued>>

\* ------------------------------------------------------------------ data

\* The task lists of at most MaxTasks tasks over Paths. The code treats a
\* path only as a set member, so the two paths are interchangeable and the
\* lists are taken up to renaming: the first task targets docs/a.md.
TaskLists ==
    {t \in UNION {[1..n -> Paths] : n \in 0..MaxTasks} :
        t = <<>> \/ t[1] = "docs/a.md"}

TaskIds == 1..Len(research_tasks)

\* run_tasks, lines 198-200: task["key_index"] = i % NUM_GEMINI_KEYS, i from 0.
KeyIndex(i) == (i - 1) % NUM_GEMINI_KEYS

\* The pull-request number the version-control host gives task i's research.
PrOf(i) == i

\* research_worker, lines 92-97: the review item built from a task and its pr.
ReviewItem(i, pr) ==
    [pr |-> pr,
     file_path |-> research_tasks[i],
     research_agent_id |-> i,
     key_index |-> KeyIndex(i)]

NoItem == [pr |-> None, file_path |-> "", research_agent_id |-> None, key_index |-> 0]

\* _run_with_timeout, lines 44-61: what the caller sees of a call.
\*   "value"   fn returned a non-None value within the deadline
\*   "none"    fn returned None within the deadline
\*   "raise"   fn raised within the deadline: re-raised to the caller
\*   "timeout" fn still running at the deadline: None returned, fn abandoned
ResearchOutcomes == {"value", "none", "raise", "timeout"}
ReviewOutcomes == {"none", "raise", "timeout"}

\* ------------------------------------------------------------------ Init

\* A worker of the given kind at the top of its loop, no call made yet.
NoCall(kind) ==
    [worker_kind |-> kind,
     wpc |-> "loop",
     t_alive |-> FALSE,
     result |-> "empty",
     timed_out |-> FALSE,
     ret |-> "unset",
     log |-> <<>>,
     calls |-> 0,
     stale |-> 0,
     puts |-> 0,
     records |-> {}]

\* No timeout-guarded call is being followed thread by thread.
GuardIdle == guard = NoCall("research")

Topics == {"A", "B", "C"}

\* No invocation of the command line has been made.
NoRun(sid) ==
    [invocation |-> 0,
     session_id |-> sid,
     ppc |-> "exited",
     tasks |-> {},
     p_research |-> [t \in Topics |-> "not_called"],
     p_review |-> [t \in Topics |-> "not_called"],
     telemetry_status |-> "unset",
     exit_status |-> "none",
     stored |-> [t \in Topics |-> "pending"]]

\* No command-line invocation is being followed.
PipeIdle == pipe = NoRun(FALSE)

\* run_pipeline is not being followed call by call.
RunIdle == run = [rpc |-> "idle"]

\* The review workers are not being followed lock operation by lock
\* operation.
LockingIdle == locking = [review_lock |-> 0]

\* run_tasks, lines 185-200: the state after the queues, the lock set and
\* the done flag are constructed and the tasks are put on research_q.
InitRunTasks ==
    /\ research_tasks \in TaskLists
    /\ research_q = [i \in 1..Len(research_tasks) |-> i]
    /\ review_q = <<>>
    /\ files_under_review = {}
    /\ review_done = FALSE
    /\ cpc = IF research_tasks = <<>> THEN "returned" ELSE "start_review"
    /\ sentinels_put = 0
    /\ rpc = [r \in ResearchWorkers |-> "unstarted"]
    /\ rtask = [r \in ResearchWorkers |-> None]
    /\ vpc = [v \in ReviewWorkers |-> "unstarted"]
    /\ vtask = [v \in ReviewWorkers |-> NoItem]
    /\ deferred = [v \in ReviewWorkers |-> <<>>]
    /\ scan = [v \in ReviewWorkers |-> 0]
    /\ abandoned = {}
    /\ research_calls = [i \in 1..Len(research_tasks) |-> 0]
    /\ research_result = [i \in 1..Len(research_tasks) |-> "pending"]
    /\ review_calls = [i \in 1..Len(research_tasks) |-> 0]
    /\ review_result = [i \in 1..Len(research_tasks) |-> "pending"]
    /\ enqueued = [i \in 1..Len(research_tasks) |-> 0]
    /\ via_deferred = [v \in ReviewWorkers |-> FALSE]

Init == InitRunTasks /\ GuardIdle /\ PipeIdle /\ RunIdle /\ LockingIdle

\* ----------------------------------------------------------- coordinator

\* run_tasks, lines 203-209: the review worker threads are started first.
\* Each starts with an empty deferred list, on which _take_unlocked returns
\* None at once, so its first shared operation is review_q.get.
StartReviewWorkers ==
    /\ cpc = "start_review"
    /\ cpc' = "start_research"
    /\ vpc' = [v \in ReviewWorkers |-> "get"]
    /\ UNCHANGED <<outerVars, research_tasks, research_q, review_q, files_under_review,
                   review_done, sentinels_put, researchVars, vtask, deferred,
                   scan, via_deferred, abandoned, histVars>>

\* run_tasks, lines 212-218: then the research worker threads.
StartResearchWorkers ==
    /\ cpc = "start_research"
    /\ cpc' = "sentinels"
    /\ rpc' = [r \in ResearchWorkers |-> "get"]
    /\ UNCHANGED <<outerVars, research_tasks, research_q, review_q, files_under_review,
                   review_done, sentinels_put, rtask, reviewVars, abandoned,
                   histVars>>

\* run_tasks, lines 224-225: one iteration of the loop that puts a None
\* sentinel per research worker; after the last one the coordinator joins.
PutSentinel ==
    /\ cpc = "sentinels"
    /\ research_q' = Append(research_q, None)
    /\ sentinels_put' = sentinels_put + 1
    /\ cpc' = IF sentinels_put + 1 = num_research THEN "join_research" ELSE "sentinels"
    /\ UNCHANGED <<outerVars, research_tasks, review_q, files_under_review, review_done,
                   researchVars, reviewVars, abandoned, histVars>>

\* A variant without the joins of lines 226-227: the flag is set as soon as
\* the sentinels are put.
SetReviewDoneWithoutJoin ==
    /\ cpc = "join_research"
    /\ review_done' = TRUE
    /\ cpc' = "join_review"
    /\ UNCHANGED <<outerVars, research_tasks, research_q, review_q,
                   files_under_review, sentinels_put, researchVars, reviewVars,
                   abandoned, histVars>>

\* run_tasks, lines 226-232: every research thread is joined, then
\* review_done.set().
SetReviewDone ==
    /\ cpc = "join_research"
    /\ \A r \in ResearchWorkers : rpc[r] = "exited"
    /\ review_done' = TRUE
    /\ cpc' = "join_review"
    /\ UNCHANGED <<outerVars, research_tasks, research_q, review_q, files_under_review,
                   sentinels_put, researchVars, reviewVars, abandoned, histVars>>

\* run_tasks, lines 233-236: every review thread is joined, run_tasks returns.
JoinReview ==
    /\ cpc = "join_review"
    /\ \A v \in ReviewWorkers : vpc[v] = "exited"
    /\ cpc' = "returned"
    /\ UNCHANGED <<outerVars, research_tasks, research_q, review_q, files_under_review,
                   review_done, sentinels_put, researchVars, reviewVars,
                   abandoned, histVars>>

\* ------------------------------------------------------- research worker

\* A variant that puts an item whenever the call did not raise, None or not.
PutsReviewItemUnlessRaised(outcome) == outcome # "raise"

\* research_worker, line 91: a review item is put when pr is not None.
PutsReviewItem(outcome) == outcome = "value"

\* A variant with a LIFO queue: get takes the element put last.
ResearchGetLifo(r) ==
    /\ rpc[r] = "get"
    /\ research_q # <<>>
    /\ research_q' = SubSeq(research_q, 1, Len(research_q) - 1)
    /\ IF research_q[Len(research_q)] = None
         THEN /\ rpc' = [rpc EXCEPT ![r] = "exited"]
              /\ UNCHANGED <<rtask, research_calls>>
         ELSE /\ rpc' = [rpc EXCEPT ![r] = "call"]
              /\ rtask' = [rtask EXCEPT ![r] = research_q[Len(research_q)]]
              /\ research_calls' =
                    [research_calls EXCEPT ![research_q[Len(research_q)]] = @ + 1]
    /\ UNCHANGED <<outerVars, research_tasks, review_q, files_under_review, review_done,
                   coordVars, reviewVars, abandoned, research_result,
                   review_calls, review_result, enqueued>>

\* research_worker, lines 71-75: research_q.get() blocks while the queue is
\* empty; None ends the worker; a task starts the timeout-guarded call.
ResearchGet(r) ==
    /\ rpc[r] = "get"
    /\ research_q # <<>>
    /\ research_q' = Tail(research_q)
    /\ IF Head(research_q) = None
         THEN /\ rpc' = [rpc EXCEPT ![r] = "exited"]
              /\ UNCHANGED <<rtask, research_calls>>
         ELSE /\ rpc' = [rpc EXCEPT ![r] = "call"]
              /\ rtask' = [rtask EXCEPT ![r] = Head(research_q)]
              /\ research_calls' = [research_calls EXCEPT ![Head(research_q)] = @ + 1]
    /\ UNCHANGED <<outerVars, research_tasks, review_q, files_under_review, review_done,
                   coordVars, reviewVars, abandoned, research_result,
                   review_calls, review_result, enqueued>>

\* A variant without the except clause of lines 106-109: an exception of
\* the research call leaves the loop and ends the worker thread.
ResearchCallEndsUncaught(r, outcome) ==
    /\ rpc[r] = "call"
    /\ research_result' = [research_result EXCEPT ![rtask[r]] = outcome]
    /\ IF PutsReviewItem(outcome)
         THEN /\ review_q' = Append(review_q, ReviewItem(rtask[r], PrOf(rtask[r])))
              /\ enqueued' = [enqueued EXCEPT ![rtask[r]] = @ + 1]
         ELSE UNCHANGED <<review_q, enqueued>>
    /\ abandoned' = IF outcome = "timeout"
                      THEN abandoned \cup {[kind |-> "research", task |-> rtask[r]]}
                      ELSE abandoned
    /\ rpc' = [rpc EXCEPT ![r] = IF outcome = "raise" THEN "exited" ELSE "get"]
    /\ rtask' = [rtask EXCEPT ![r] = None]
    /\ UNCHANGED <<outerVars, research_tasks, research_q, files_under_review, review_done,
                   coordVars, reviewVars, research_calls, review_calls,
                   review_result>>

\* research_worker, lines 76-109: _run_with_timeout gives the call's outcome;
\* a non-None pr is put on review_q; an exception is caught; the loop goes on.
ResearchCallEnds(r, outcome) ==
    /\ rpc[r] = "call"
    /\ research_result' = [research_result EXCEPT ![rtask[r]] = outcome]
    /\ IF PutsReviewItem(outcome)
         THEN /\ review_q' = Append(review_q, ReviewItem(rtask[r], PrOf(rtask[r])))
              /\ enqueued' = [enqueued EXCEPT ![rtask[r]] = @ + 1]
         ELSE UNCHANGED <<review_q, enqueued>>
    /\ abandoned' = IF outcome = "timeout"
                      THEN abandoned \cup {[kind |-> "research", task |-> rtask[r]]}
                      ELSE abandoned
    /\ rpc' = [rpc EXCEPT ![r] = "get"]
    /\ rtask' = [rtask EXCEPT ![r] = None]
    /\ UNCHANGED <<outerVars, research_tasks, research_q, files_under_review, review_done,
                   coordVars, reviewVars, research_calls, review_calls,
                   review_result>>

\* --------------------------------------------------------- review worker

\* The sequence s without its i-th element.
RemoveAt(s, i) == SubSeq(s, 1, i - 1) \o SubSeq(s, i + 1, Len(s))

\* A variant in which the membership test is lost: every check succeeds.
IsLockedNever(path) == FALSE

\* Lines 123 and 150: the test made on files_under_review under review_lock.
IsLocked(path) == path \in files_under_review

\* A variant with the test on the deferred list inverted.
MayExitInverted(v) == review_done /\ deferred[v] # <<>>

\* A variant that forgets the deferred list.
MayExitIgnoringDeferred(v) == review_done

\* review_worker, line 144: the loop is left when the done flag is set and
\* the worker's own deferred list is empty.
MayExit(v) == review_done /\ deferred[v] = <<>>

\* review_worker, lines 135-137: the top of the loop calls _take_unlocked.
\* On an empty deferred list the call returns None without touching shared
\* state, and the worker's next shared operation is review_q.get (line 142).
LoopTop(d) == IF d = <<>> THEN "get" ELSE "take"

FirstScan(d) == IF d = <<>> THEN 0 ELSE 1

\* _take_unlocked, lines 116-129, called at line 137: one iteration of the
\* loop over a non-empty deferred list, at position scan[v], with nothing
\* taken so far. The test and the add are one critical section of
\* review_lock. Once an item is taken the remaining iterations only copy
\* the other items, so they are part of the same step: the deferred list
\* loses exactly the taken item and the worker goes on to the review call
\* (line 155). When the last item is refused the function returns None and
\* the worker goes to review_q.get.
TakeUnlocked(v) ==
    /\ vpc[v] = "take"
    /\ IF ~IsLocked(deferred[v][scan[v]].file_path)
         THEN /\ files_under_review' =
                    files_under_review \cup {deferred[v][scan[v]].file_path}
              /\ vtask' = [vtask EXCEPT ![v] = deferred[v][scan[v]]]
              /\ deferred' = [deferred EXCEPT ![v] = RemoveAt(@, scan[v])]
              /\ vpc' = [vpc EXCEPT ![v] = "review"]
              /\ scan' = [scan EXCEPT ![v] = 0]
              /\ via_deferred' = [via_deferred EXCEPT ![v] = TRUE]
              /\ review_calls' = [review_calls EXCEPT
                                    ![deferred[v][scan[v]].research_agent_id] = @ + 1]
         ELSE /\ IF scan[v] = Len(deferred[v])
                   THEN /\ vpc' = [vpc EXCEPT ![v] = "get"]
                        /\ scan' = [scan EXCEPT ![v] = 0]
                   ELSE /\ scan' = [scan EXCEPT ![v] = @ + 1]
                        /\ UNCHANGED vpc
              /\ UNCHANGED <<files_under_review, vtask, deferred, via_deferred,
                             review_calls>>
    /\ UNCHANGED <<outerVars, research_tasks, research_q, review_q, review_done, coordVars,
                   researchVars, abandoned, research_calls, research_result,
                   review_result, enqueued>>

\* A variant that runs the two stages one after the other: a review worker
\* takes nothing from review_q until review_done is set.
ReviewGetItemAfterResearch(v) ==
    /\ vpc[v] = "get"
    /\ review_q # <<>>
    /\ review_done
    /\ vtask' = [vtask EXCEPT ![v] = Head(review_q)]
    /\ review_q' = Tail(review_q)
    /\ vpc' = [vpc EXCEPT ![v] = "check_lock"]
    /\ UNCHANGED <<outerVars, research_tasks, research_q, files_under_review, review_done,
                   coordVars, researchVars, deferred, scan, via_deferred,
                   abandoned, histVars>>

\* review_worker, line 142: review_q.get(timeout=REVIEW_POLL_INTERVAL) gives
\* the head of the queue.
ReviewGetItem(v) ==
    /\ vpc[v] = "get"
    /\ review_q # <<>>
    /\ vtask' = [vtask EXCEPT ![v] = Head(review_q)]
    /\ review_q' = Tail(review_q)
    /\ vpc' = [vpc EXCEPT ![v] = "check_lock"]
    /\ UNCHANGED <<outerVars, research_tasks, research_q, files_under_review, review_done,
                   coordVars, researchVars, deferred, scan, via_deferred,
                   abandoned, histVars>>

\* review_worker, lines 142-143: the queue is still empty when the poll
\* interval ends, and get raises queue.Empty.
ReviewGetEmpty(v) ==
    /\ vpc[v] = "get"
    /\ review_q = <<>>
    /\ vpc' = [vpc EXCEPT ![v] = "empty"]
    /\ UNCHANGED <<outerVars, research_tasks, research_q, review_q, files_under_review,
                   review_done, coordVars, researchVars, vtask, deferred, scan,
                   via_deferred, abandoned, histVars>>

\* review_worker, lines 143-146: in the handler of queue.Empty, break when
\* done_event is set and nothing is deferred, else continue.
ReviewCheckDone(v) ==
    /\ vpc[v] = "empty"
    /\ IF MayExit(v)
         THEN /\ vpc' = [vpc EXCEPT ![v] = "exited"]
              /\ UNCHANGED scan
         ELSE /\ vpc' = [vpc EXCEPT ![v] = LoopTop(deferred[v])]
              /\ scan' = [scan EXCEPT ![v] = FirstScan(deferred[v])]
    /\ UNCHANGED <<outerVars, research_tasks, research_q, review_q, files_under_review,
                   review_done, coordVars, researchVars, vtask, deferred,
                   via_deferred, abandoned, histVars>>

\* A variant that puts a refused item back on the shared queue instead of
\* on the worker's deferred list.
ReviewCheckLockRequeues(v) ==
    /\ vpc[v] = "check_lock"
    /\ IF IsLocked(vtask[v].file_path)
         THEN /\ review_q' = Append(review_q, vtask[v])
              /\ vtask' = [vtask EXCEPT ![v] = NoItem]
              /\ vpc' = [vpc EXCEPT ![v] = "get"]
              /\ UNCHANGED <<files_under_review, review_calls, deferred, scan>>
         ELSE /\ files_under_review' = files_under_review \cup {vtask[v].file_path}
              /\ vpc' = [vpc EXCEPT ![v] = "review"]
              /\ review_calls' = [review_calls EXCEPT
                                    ![vtask[v].research_agent_id] = @ + 1]
              /\ UNCHANGED <<vtask, deferred, scan, review_q>>
    /\ UNCHANGED <<outerVars, research_tasks, research_q, review_done, coordVars,
                   researchVars, via_deferred, abandoned, research_calls,
                   research_result, review_result, enqueued>>

\* A variant in which line 153 is lost: the fresh-item path starts the
\* review without adding the path to files_under_review.
ReviewCheckLockNoAdd(v) ==
    /\ vpc[v] = "check_lock"
    /\ IF vtask[v].file_path \in files_under_review
         THEN /\ deferred' = [deferred EXCEPT ![v] = Append(@, vtask[v])]
              /\ vtask' = [vtask EXCEPT ![v] = NoItem]
              /\ vpc' = [vpc EXCEPT ![v] = "take"]
              /\ scan' = [scan EXCEPT ![v] = 1]
              /\ UNCHANGED <<files_under_review, review_calls>>
         ELSE /\ vpc' = [vpc EXCEPT ![v] = "review"]
              /\ review_calls' = [review_calls EXCEPT
                                    ![vtask[v].research_agent_id] = @ + 1]
              /\ UNCHANGED <<files_under_review, vtask, deferred, scan>>
    /\ UNCHANGED <<outerVars, research_tasks, research_q, review_q, review_done, coordVars,
                   researchVars, via_deferred, abandoned, research_calls,
                   research_result, review_result, enqueued>>

\* review_worker, lines 149-155: under review_lock, a fresh item whose file
\* is locked is appended to the deferred list (continue, back to
\* _take_unlocked); otherwise the path is added and the review call starts.
ReviewCheckLock(v) ==
    /\ vpc[v] = "check_lock"
    /\ IF IsLocked(vtask[v].file_path)
         THEN /\ deferred' = [deferred EXCEPT ![v] = Append(@, vtask[v])]
              /\ vtask' = [vtask EXCEPT ![v] = NoItem]
              /\ vpc' = [vpc EXCEPT ![v] = "take"]
              /\ scan' = [scan EXCEPT ![v] = 1]
              /\ UNCHANGED <<files_under_review, review_calls>>
         ELSE /\ files_under_review' = files_under_review \cup {vtask[v].file_path}
              /\ vpc' = [vpc EXCEPT ![v] = "review"]
              /\ review_calls' = [review_calls EXCEPT
                                    ![vtask[v].research_agent_id] = @ + 1]
              /\ UNCHANGED <<vtask, deferred, scan>>
    /\ UNCHANGED <<outerVars, research_tasks, research_q, review_q, review_done, coordVars,
                   researchVars, via_deferred, abandoned, research_calls,
                   research_result, review_result, enqueued>>

\* A variant without the finally block: the path is discarded only after
\* a call that did not raise; an exception sends the worker back to the
\* top of its loop with the path still in the set.
ReviewCallEndsNoFinally(v, outcome) ==
    /\ vpc[v] = "review"
    /\ IF outcome = "raise"
         THEN /\ vpc' = [vpc EXCEPT ![v] = LoopTop(deferred[v])]
              /\ scan' = [scan EXCEPT ![v] = FirstScan(deferred[v])]
              /\ vtask' = [vtask EXCEPT ![v] = NoItem]
              /\ via_deferred' = [via_deferred EXCEPT ![v] = FALSE]
         ELSE /\ vpc' = [vpc EXCEPT ![v] = "release"]
              /\ UNCHANGED <<scan, vtask, via_deferred>>
    /\ review_result' = [review_result EXCEPT ![vtask[v].research_agent_id] = outcome]
    /\ abandoned' = IF outcome = "timeout"
                      THEN abandoned \cup
                           {[kind |-> "review", task |-> vtask[v].research_agent_id]}
                      ELSE abandoned
    /\ UNCHANGED <<outerVars, research_tasks, research_q, review_q, files_under_review,
                   review_done, coordVars, researchVars, deferred,
                   research_calls, research_result, review_calls, enqueued>>

\* review_worker, lines 156-175: _run_with_timeout returns (the review
\* returned, or was still running at the deadline) or re-raises the review's
\* exception, which is caught; the worker goes to the finally block.
ReviewCallEnds(v, outcome) ==
    /\ vpc[v] = "review"
    /\ vpc' = [vpc EXCEPT ![v] = "release"]
    /\ review_result' = [review_result EXCEPT ![vtask[v].research_agent_id] = outcome]
    /\ abandoned' = IF outcome = "timeout"
                      THEN abandoned \cup
                           {[kind |-> "review", task |-> vtask[v].research_agent_id]}
                      ELSE abandoned
    /\ UNCHANGED <<outerVars, research_tasks, research_q, review_q, files_under_review,
                   review_done, coordVars, researchVars, vtask, deferred, scan,
                   via_deferred, research_calls, research_result, review_calls,
                   enqueued>>

\* review_worker, lines 176-178: finally, under review_lock, the path is
\* discarded; the loop starts again at _take_unlocked.
ReviewRelease(v) ==
    /\ vpc[v] = "release"
    /\ files_under_review' = files_under_review \ {vtask[v].file_path}
    /\ vtask' = [vtask EXCEPT ![v] = NoItem]
    /\ via_deferred' = [via_deferred EXCEPT ![v] = FALSE]
    /\ vpc' = [vpc EXCEPT ![v] = LoopTop(deferred[v])]
    /\ scan' = [scan EXCEPT ![v] = FirstScan(deferred[v])]
    /\ UNCHANGED <<outerVars, research_tasks, research_q, review_q, review_done, coordVars,
                   researchVars, deferred, abandoned, histVars>>

\* A variant in which the late result of an abandoned research call is
\* handled as if it had arrived in time: a review item is put for it.
AbandonedCallEndsDelivered(c) ==
    /\ c \in abandoned
    /\ abandoned' = abandoned \ {c}
    /\ review_q' = IF c.kind = "research"
                     THEN Append(review_q, ReviewItem(c.task, PrOf(c.task)))
                     ELSE review_q
    /\ UNCHANGED <<outerVars, research_tasks, research_q, files_under_review,
                   review_done, coordVars, researchVars, reviewVars, histVars>>

\* _run_with_timeout, lines 52-58: the daemon thread of a call that was
\* still running at the deadline ends later; its result goes into a dict
\* nobody reads.
AbandonedCallEnds(c) ==
    /\ c \in abandoned
    /\ abandoned' = abandoned \ {c}
    /\ UNCHANGED <<outerVars, research_tasks, research_q, review_q, files_under_review,
                   review_done, coordVars, researchVars, reviewVars, histVars>>

\* ------------------------------------------------------------ behaviours

Coordinator ==
    \/ StartReviewWorkers
    \/ StartResearchWorkers
    \/ PutSentinel
    \/ SetReviewDone
    \/ JoinReview

ResearchWorker(r) ==
    \/ ResearchGet(r)
    \/ \E o \in ResearchOutcomes : ResearchCallEnds(r, o)

ReviewWorker(v) ==
    \/ TakeUnlocked(v)
    \/ ReviewGetItem(v)
    \/ ReviewGetEmpty(v)
    \/ ReviewCheckDone(v)
    \/ ReviewCheckLock(v)
    \/ \E o \in ReviewOutcomes : ReviewCallEnds(v, o)
    \/ ReviewRelease(v)

Abandoned == \E c \in abandoned : AbandonedCallEnds(c)

Next ==
    \/ Coordinator
    \/ \E r \in ResearchWorkers : ResearchWorker(r)
    \/ \E v \in ReviewWorkers : ReviewWorker(v)
    \/ Abandoned

Spec == Init /\ [][Next]_vars

\* Threads are scheduled fairly, and every external call ends for its
\* caller: it returns, raises, or _run_with_timeout stops waiting for it
\* at the deadline (t.join(timeout), line 54). An abandoned call need never
\* end.
FairSpec ==
    /\ Spec
    /\ WF_vars(Coordinator)
    /\ \A r \in ResearchWorkers : WF_vars(ResearchWorker(r))
    /\ \A v \in ReviewWorkers : WF_vars(ReviewWorker(v))

\* ------------------------------------------------------------ properties

\* Review worker v is between its successful check-and-add of path p and
\* its release of p.
Holds(v, p) == vpc[v] \in {"review", "release"} /\ vtask[v].file_path = p

Holders(p) == {v \in ReviewWorkers : Holds(v, p)}

\* The item of task i is on worker v's deferred list.
DeferredBy(v, i) ==
    \E k \in 1..Len(deferred[v]) : deferred[v][k].research_agent_id = i

\* C1: no file path is held by two review workers at the same time,
\* whichever of the two check-and-add sites (the fresh-item path of
\* review_worker, _take_unlocked) acquired it.
C1_NoPathHeldTwice ==
    \A p \in Paths : Cardinality(Holders(p)) <= 1

\* C1 witness: two items target the same path; a worker that was refused
\* the path while the other worker held it (the item was deferred) has
\* since acquired it through _take_unlocked and holds it.
C1_Witness ==
    \E v \in ReviewWorkers :
        /\ vpc[v] = "review"
        /\ via_deferred[v]
        /\ vtask[v].file_path \in files_under_review
        /\ \E i \in TaskIds :
              /\ i # vtask[v].research_agent_id
              /\ research_tasks[i] = vtask[v].file_path
              /\ review_calls[i] = 1

\* The review call of task i's item is awaited: a worker is inside
\* _run_with_timeout for it (lines 159-168).
Awaited(i) ==
    \E v \in ReviewWorkers : vpc[v] = "review" /\ vtask[v].research_agent_id = i

\* The review call of task i's item is executing: awaited, or abandoned at
\* the deadline and still running in its daemon thread (lines 52-58).
Executing(i) ==
    \/ Awaited(i)
    \/ [kind |-> "review", task |-> i] \in abandoned

\* C2 as stated: the review calls of two items with the same target path
\* never execute at the same time, whatever the outcome of a call, a
\* timeout included.
C2_NoOverlapSameFile ==
    \A i, j \in TaskIds :
        (i # j /\ research_tasks[i] = research_tasks[j])
            => ~(Executing(i) /\ Executing(j))

\* C2 amended: the review calls of two items with the same target path are
\* never awaited by their workers at the same time (from the start of
\* _run_with_timeout to its return or raise); a call abandoned at the
\* deadline is outside this guarantee.
C2_NoOverlapWhileAwaited ==
    \A i, j \in TaskIds :
        (i # j /\ research_tasks[i] = research_tasks[j])
            => ~(Awaited(i) /\ Awaited(j))

\* C2 witness: two items target the same file; the review of the first has
\* ended for its worker with an exception, and the review of the second is
\* now awaited.
C2_Witness ==
    \E i, j \in TaskIds :
        /\ i # j
        /\ research_tasks[i] = research_tasks[j]
        /\ review_result[i] = "raise"
        /\ Awaited(j)

\* C3 as stated: every review item put on the queue is taken by exactly one
\* worker and its review call is started exactly once before run_tasks
\* returns: no item is reviewed twice, and at the return nothing is left in
\* the shared queue or in a deferred list.
C3_EveryItemReviewedOnce ==
    /\ \A i \in TaskIds : review_calls[i] <= enqueued[i]
    /\ cpc = "returned" =>
          /\ review_q = <<>>
          /\ \A v \in ReviewWorkers : deferred[v] = <<>>
          /\ \A i \in TaskIds : review_calls[i] = enqueued[i]

\* C4 as stated: when every research call returned a pull-request handle
\* and every review call returned normally within the deadline, then at the
\* return of run_tasks each task has had exactly one research call, one
\* handle and one review call.
C4_CleanRunCompletesEveryTask ==
    (/\ cpc = "returned"
     /\ \A i \in TaskIds : research_result[i] = "value"
     /\ \A i \in TaskIds : review_result[i] \in {"pending", "none"})
        => \A i \in TaskIds :
              /\ research_calls[i] = 1
              /\ enqueued[i] = 1
              /\ review_calls[i] = 1
              /\ review_result[i] = "none"

\* C8 as stated: a review worker leaves its loop only in a state where the
\* done flag is set, its deferred list is empty and the shared review queue
\* is empty.
C8_ExitOnlyWhenDrained ==
    [][\A v \in ReviewWorkers :
          (vpc[v] # "exited" /\ vpc'[v] = "exited")
              => (review_done /\ deferred[v] = <<>> /\ review_q = <<>>)]_vars

AllWorkersExited ==
    /\ \A r \in ResearchWorkers : rpc[r] = "exited"
    /\ \A v \in ReviewWorkers : vpc[v] = "exited"

\* C5: run_tasks terminates: under fair scheduling, with every external
\* call ending for its caller (return, raise or timeout), every research
\* worker and every review worker eventually exits and both joins complete.
C5_RunTasksTerminates ==
    <>(cpc = "returned" /\ (research_tasks # <<>> => AllWorkersExited))

\* C5 witness: run_tasks has returned, with every worker exited, although a
\* research call and a review call were stuck past their deadlines and an
\* abandoned call is still running.
C5_Witness ==
    /\ cpc = "returned"
    /\ AllWorkersExited
    /\ \E i \in TaskIds : research_result[i] = "timeout"
    /\ \E i \in TaskIds : review_result[i] = "timeout"
    /\ abandoned # {}

\* The item of task i is on some worker's deferred list.
IsDeferred(i) == \E v \in ReviewWorkers : DeferredBy(v, i)

\* Some item is on a deferred list.
SomeDeferred == \E i \in 1..MaxTasks : i \in TaskIds /\ IsDeferred(i)

\* C6: an item pulled while its file is locked is put on the worker's
\* deferred list and not dropped: it leaves the list only by being taken by
\* _take_unlocked, with its review started; the worker does not exit while
\* the list is non-empty; and under fair scheduling no item stays deferred
\* forever (again and again no item is deferred at all), so every deferred
\* item is eventually taken and reviewed.
C6_DeferredEventuallyReviewed ==
    /\ [](\A v \in ReviewWorkers : vpc[v] = "exited" => deferred[v] = <<>>)
    /\ [][\A v \in ReviewWorkers :
            /\ (vpc[v] = "check_lock" /\ vtask[v].file_path \in files_under_review
                  /\ vpc'[v] # "check_lock")
                 => \E k \in 1..Len(deferred'[v]) : deferred'[v][k] = vtask[v]
            /\ \A k \in 1..Len(deferred[v]) :
                 (\A l \in 1..Len(deferred'[v]) : deferred'[v][l] # deferred[v][k])
                    => /\ vtask'[v] = deferred[v][k]
                       /\ vpc[v] = "take" /\ vpc'[v] = "review"
                       /\ review_calls'[deferred[v][k].research_agent_id] = 1]_vars
    /\ []<>~SomeDeferred

\* C6 witness: an item that was deferred has been taken by _take_unlocked
\* and its review is awaited, while done is not yet set.
C6_Witness ==
    \E v \in ReviewWorkers :
        /\ vpc[v] = "review"
        /\ via_deferred[v]
        /\ ~review_done

\* C7: a path is in files_under_review exactly when one review worker is
\* between its check-and-add of the path and its release; the release
\* follows every outcome of the review call, and the set is empty when
\* run_tasks returns.
C7_LockSetMatchesHolders ==
    /\ \A p \in Paths :
          (p \in files_under_review) <=> (Cardinality(Holders(p)) = 1)
    /\ files_under_review \subseteq Paths
    /\ cpc = "returned" => files_under_review = {}

\* C7 witness: run_tasks has returned after one review raised and another
\* timed out, and no path is left locked.
C7_Witness ==
    /\ cpc = "returned"
    /\ files_under_review = {}
    /\ \E i, j \in TaskIds :
          review_result[i] = "raise" /\ review_result[j] = "timeout"

\* Number of None sentinels in a research queue.
RECURSIVE Sentinels(_)
Sentinels(q) ==
    IF q = <<>> THEN 0
    ELSE (IF Head(q) = None THEN 1 ELSE 0) + Sentinels(Tail(q))

\* C9: each task is dequeued by one research worker and researched once;
\* the sentinels are behind all tasks in research_q; every sentinel taken
\* ended exactly one worker; no research worker has exited while a task is
\* still in research_q; once all workers have exited the queue is empty and
\* every task has had its research call.
C9_ResearchQueueDiscipline ==
    /\ \A i \in TaskIds : research_calls[i] <= 1
    /\ \A k, l \in 1..Len(research_q) :
          (k < l /\ research_q[k] = None) => research_q[l] = None
    /\ Sentinels(research_q)
          + Cardinality({r \in ResearchWorkers : rpc[r] = "exited"}) = sentinels_put
    /\ sentinels_put <= num_research
    /\ (\E r \in ResearchWorkers : rpc[r] = "exited")
          => \A k \in 1..Len(research_q) : research_q[k] = None
    /\ \A i \in TaskIds :
          (\A k \in 1..Len(research_q) : research_q[k] # i) <=> research_calls[i] = 1
    /\ (\A r \in ResearchWorkers : rpc[r] = "exited")
          => (research_q = <<>> /\ \A i \in TaskIds : research_calls[i] = 1)

\* C9 witness: both research workers have exited on their sentinels after
\* each of them researched one of two tasks.
C9_Witness ==
    /\ \A r \in ResearchWorkers : rpc[r] = "exited"
    /\ Len(research_tasks) = 2
    /\ \A i \in TaskIds : research_calls[i] = 1
    /\ research_result[1] = "timeout"
    /\ research_result[2] = "value"

\* Every review item held anywhere is the one built from its task.
WellFormed(item) ==
    /\ item.research_agent_id \in TaskIds
    /\ item.pr = PrOf(item.research_agent_id)
    /\ item.file_path = research_tasks[item.research_agent_id]
    /\ item.key_index = (item.research_agent_id - 1) % NUM_GEMINI_KEYS

\* C10: a research worker puts a review item for a task exactly when its
\* research call returned a non-None handle within the deadline, and then
\* one item, carrying the handle and the task's file path, id and
\* key_index; after None, an exception or a timeout nothing is put, and in
\* every case the worker goes back to research_q.get.
C10_ItemIffHandle ==
    /\ [](\A i \in TaskIds :
            enqueued[i] = IF research_result[i] = "value" THEN 1 ELSE 0)
    /\ [](\A k \in 1..Len(review_q) : WellFormed(review_q[k]))
    /\ [][\A r \in ResearchWorkers :
            (rpc[r] = "call" /\ rpc'[r] # "call")
              => /\ rpc'[r] = "get"
                 /\ review_q' =
                      IF research_result'[rtask[r]] = "value"
                        THEN Append(review_q,
                                    [pr |-> PrOf(rtask[r]),
                                     file_path |-> research_tasks[rtask[r]],
                                     research_agent_id |-> rtask[r],
                                     key_index |-> (rtask[r] - 1) % NUM_GEMINI_KEYS])
                        ELSE review_q]_vars

\* C10 witness: of two researched tasks one returned a handle and has its
\* item on the review queue, the other timed out and put nothing, and its
\* worker is back at research_q.get.
C10_Witness ==
    /\ Len(research_tasks) = 2
    /\ research_result[1] = "timeout" /\ enqueued[1] = 0
    /\ research_result[2] = "value" /\ enqueued[2] = 1
    /\ Len(review_q) = 1
    /\ \E r \in ResearchWorkers : rpc[r] = "get"

\* C11: an exception raised by a research or review call is caught inside
\* the worker. After a call that raised, the research worker is back at
\* research_q.get and the review worker goes through its finally block to
\* the top of its loop; a research worker ends only by taking a sentinel
\* and a review worker only in its queue.Empty handler; run_tasks is never
\* left except by its return; and once the research workers have all
\* exited every task has been dispatched, whatever its siblings raised.
C11_ExceptionsAreCaught ==
    /\ [][/\ \A r \in ResearchWorkers :
              /\ (rpc[r] = "call" /\ rpc'[r] # "call") => rpc'[r] = "get"
              /\ (rpc[r] # "exited" /\ rpc'[r] = "exited")
                    => (rpc[r] = "get" /\ research_q # <<>>
                          /\ Head(research_q) = None)
          /\ \A v \in ReviewWorkers :
              /\ (vpc[v] = "review" /\ vpc'[v] # "review") => vpc'[v] = "release"
              /\ (vpc[v] = "release" /\ vpc'[v] # "release")
                    => vpc'[v] \in {"take", "get"}
              /\ (vpc[v] # "exited" /\ vpc'[v] = "exited") => vpc[v] = "empty"
          /\ cpc' \in {"start_review", "start_research", "sentinels",
                       "join_research", "join_review", "returned"}]_vars
    /\ []((\A r \in ResearchWorkers : rpc[r] = "exited")
            => \A i \in TaskIds : research_calls[i] = 1)

\* C11 witness: the research of task 1 raised and the review of task 2
\* raised; afterwards every worker is alive at its queue, and the sibling
\* task 2 was researched and reviewed.
C11_Witness ==
    /\ Len(research_tasks) = 2
    /\ research_result[1] = "raise"
    /\ research_result[2] = "value"
    /\ review_result[2] = "raise"
    /\ \A r \in ResearchWorkers : rpc[r] = "get"
    /\ \A v \in ReviewWorkers : vpc[v] \in {"get", "empty"}

\* ------------------------------------------- the timeout guard, by thread

\* What fn can do in its daemon thread: research returns a PR number or
\* None, review returns None, and either can raise.
FnOutcomes(kind) ==
    IF kind = "research" THEN {"value", "none", "error"} ELSE {"none", "error"}

\* One research worker or one review worker, about to run its calls; run_tasks
\* itself is outside this view (no tasks).
GuardInit ==
    /\ InitRunTasks
    /\ research_tasks = <<>>
    /\ PipeIdle
    /\ RunIdle
    /\ LockingIdle
    /\ guard \in {NoCall(kind) : kind \in {"research", "review"}}

\* research_worker lines 71-90, review_worker lines 155-168, and
\* _run_with_timeout lines 46-53: the worker has an item, sends the started
\* event and enters _run_with_timeout, which creates the result dict and
\* starts the daemon thread; the worker is then in t.join(timeout).
StartCall ==
    /\ guard.wpc = "loop"
    /\ guard.calls < MaxCalls
    /\ guard' = [guard EXCEPT
                   !.calls = @ + 1,
                   !.result = "empty",
                   !.t_alive = TRUE,
                   !.timed_out = FALSE,
                   !.ret = "unset",
                   !.log = <<IF guard.worker_kind = "research"
                               THEN "event:researcher_started"
                               ELSE "event:reviewer_started">>,
                   !.wpc = "join"]
    /\ UNCHANGED <<runTasksVars, pipe, run, locking>>

\* _wrapper, lines 47-51: fn returns and result["value"] is set, or fn
\* raises and result["error"] is set; the thread ends.
FnEnds(outcome) ==
    /\ guard.wpc \in {"join", "is_alive"}
    /\ guard.t_alive
    /\ outcome \in FnOutcomes(guard.worker_kind)
    /\ guard' = [guard EXCEPT !.result = outcome, !.t_alive = FALSE]
    /\ UNCHANGED <<runTasksVars, pipe, run, locking>>

\* A variant whose join has no timeout: it never returns while the thread
\* is alive.
JoinWithoutTimeout ==
    /\ FALSE
    /\ UNCHANGED vars

\* Line 54: t.join(timeout=timeout) returns at the deadline with the thread
\* still running.
JoinTimesOut ==
    /\ guard.wpc = "join"
    /\ guard.t_alive
    /\ guard' = [guard EXCEPT !.wpc = "is_alive"]
    /\ UNCHANGED <<runTasksVars, pipe, run, locking>>

\* Line 54: t.join returns because the thread has ended.
JoinFinished ==
    /\ guard.wpc = "join"
    /\ ~guard.t_alive
    /\ guard' = [guard EXCEPT !.wpc = "is_alive"]
    /\ UNCHANGED <<runTasksVars, pipe, run, locking>>

\* A variant that swallows fn's exception and returns None.
RunWithTimeoutSwallows ==
    /\ guard.wpc = "is_alive"
    /\ guard' =
         IF guard.t_alive
           THEN [guard EXCEPT
                   !.log = Append(@, "log:[timeout] still running -- skipping"),
                   !.timed_out = TRUE,
                   !.ret = "None",
                   !.wpc = "returned",
                   !.stale = @ + 1,
                   !.t_alive = FALSE,
                   !.result = "empty"]
           ELSE [guard EXCEPT
                   !.wpc = "returned",
                   !.ret = IF guard.result = "value" THEN "pr" ELSE "None",
                   !.t_alive = FALSE,
                   !.result = "empty"]
    /\ UNCHANGED <<runTasksVars, pipe, run, locking>>

\* A variant without the message of lines 56-57.
RunWithTimeoutSilent ==
    /\ guard.wpc = "is_alive"
    /\ guard' =
         IF guard.t_alive
           THEN [guard EXCEPT
                   !.timed_out = TRUE,
                   !.ret = "None",
                   !.wpc = "returned",
                   !.stale = @ + 1,
                   !.t_alive = FALSE,
                   !.result = "empty"]
           ELSE IF guard.result = "error"
             THEN [guard EXCEPT
                     !.wpc = "raised",
                     !.t_alive = FALSE,
                     !.result = "empty"]
             ELSE [guard EXCEPT
                     !.wpc = "returned",
                     !.ret = IF guard.result = "value" THEN "pr" ELSE "None",
                     !.t_alive = FALSE,
                     !.result = "empty"]
    /\ UNCHANGED <<runTasksVars, pipe, run, locking>>

\* _run_with_timeout, lines 55-61: if t.is_alive(), the timeout message is
\* printed and logged and None is returned, the thread being left to run;
\* otherwise the exception in result is raised, or result.get("value") is
\* returned. The frame (t, result) is then gone.
RunWithTimeoutReturns ==
    /\ guard.wpc = "is_alive"
    /\ guard' =
         IF guard.t_alive
           THEN [guard EXCEPT
                   !.log = Append(@, "log:[timeout] still running -- skipping"),
                   !.timed_out = TRUE,
                   !.ret = "None",
                   !.wpc = "returned",
                   !.stale = @ + 1,
                   !.t_alive = FALSE,
                   !.result = "empty"]
           ELSE IF guard.result = "error"
             THEN [guard EXCEPT
                     !.wpc = "raised",
                     !.t_alive = FALSE,
                     !.result = "empty"]
             ELSE [guard EXCEPT
                     !.wpc = "returned",
                     !.ret = IF guard.result = "value" THEN "pr" ELSE "None",
                     !.t_alive = FALSE,
                     !.result = "empty"]
    /\ UNCHANGED <<runTasksVars, pipe, run, locking>>

\* What the worker prints, logs and sends after the call: research_worker
\* lines 91-109, review_worker lines 169-175.
Written(kind, pc, value) ==
    IF kind = "research"
      THEN CASE pc = "raised" ->
                  <<"log:[research] Failed", "event:researcher_done error">>
             [] pc = "returned" /\ value = "pr" ->
                  <<"log:[research] Done", "event:researcher_done pr",
                    "event:pr_created">>
             [] OTHER ->
                  <<"log:[research] No PR", "event:researcher_done pr=None">>
      ELSE IF pc = "raised"
             THEN <<"log:[review] Failed", "event:reviewer_done error">>
             ELSE <<"log:[review] Done", "event:reviewer_done">>

\* research_worker lines 91-109, review_worker lines 169-178: the worker
\* handles what _run_with_timeout gave (a research worker puts a review item
\* for a non-None pr), writes its messages and events, and is back at the
\* top of its loop.
WorkerRecords ==
    /\ guard.wpc \in {"returned", "raised"}
    /\ guard' = [guard EXCEPT
                   !.puts = IF guard.worker_kind = "research"
                               /\ guard.wpc = "returned" /\ guard.ret = "pr"
                              THEN @ + 1 ELSE @,
                   !.records = @ \cup
                      {[timed_out |-> guard.timed_out,
                        raised |-> guard.wpc = "raised",
                        ret |-> guard.ret,
                        written |-> guard.log \o
                           Written(guard.worker_kind, guard.wpc, guard.ret)]},
                   !.log = <<>>,
                   !.timed_out = FALSE,
                   !.ret = "unset",
                   !.wpc = "loop"]
    /\ UNCHANGED <<runTasksVars, pipe, run, locking>>

\* Lines 47-51 in the daemon thread of an abandoned call: fn returns or
\* raises at last, and _wrapper writes into the dict of a frame that is gone.
StaleEnds ==
    /\ guard.stale > 0
    /\ guard' = [guard EXCEPT !.stale = @ - 1]
    /\ UNCHANGED <<runTasksVars, pipe, run, locking>>

GuardWorker ==
    \/ StartCall
    \/ JoinTimesOut
    \/ JoinFinished
    \/ RunWithTimeoutReturns
    \/ WorkerRecords

GuardNext ==
    \/ GuardWorker
    \/ \E o \in {"value", "none", "error"} : FnEnds(o)
    \/ StaleEnds

GuardSpec == GuardInit /\ [][GuardNext]_vars

\* The worker thread is scheduled fairly and t.join(timeout) returns at the
\* deadline at the latest; fn itself need never end.
FairGuardSpec == GuardSpec /\ WF_vars(GuardWorker)

C13_StuckCallDoesNotBlock ==
    /\ (guard.wpc = "join") ~> (guard.wpc = "loop")
    /\ [][(guard.wpc = "is_alive" /\ guard.t_alive /\ guard'.wpc # "is_alive")
            => /\ guard'.wpc = "returned"
               /\ guard'.ret = "None"
               /\ guard'.t_alive = FALSE]_vars
    /\ [][(guard.wpc = "returned" /\ guard.timed_out /\ guard'.wpc # "returned")
            => guard'.wpc = "loop"]_vars

\* C13 witness: the worker is inside its second call while the fn of its
\* first call, abandoned at the deadline, is still running.
C13_Witness ==
    /\ guard.wpc = "join"
    /\ guard.calls = 2
    /\ guard.stale = 1
    /\ \E x \in guard.records : x.timed_out

\* C14: the late completion of a call abandoned at the deadline changes no
\* scheduler state: nothing is put on either queue, files_under_review and
\* every deferred list stay as they are, no worker's position or current
\* item changes, and no recorded result changes; only the abandoned call
\* itself is gone. Hence every item ever on the review queue stems from a
\* research call that returned its handle within the deadline.
C14_LateCompletionChangesNothing ==
    /\ [][(\E c \in abandoned : c \notin abandoned')
            => UNCHANGED <<research_q, review_q, files_under_review,
                           review_done, coordVars, researchVars, reviewVars,
                           histVars>>]_vars
    /\ [](\A k \in 1..Len(review_q) :
            research_result[review_q[k].research_agent_id] = "value")
    /\ [](\A i \in TaskIds :
            research_result[i] = "timeout" => (enqueued[i] = 0 /\ review_calls[i] = 0))

\* C14 witness: an abandoned research call and an abandoned review call
\* have both ended after their timeouts were recorded; the review queue is
\* empty and no path is locked.
C14_Witness ==
    /\ Len(research_tasks) = 2
    /\ research_result[1] = "timeout"
    /\ research_result[2] = "value"
    /\ review_result[2] = "timeout"
    /\ abandoned = {}
    /\ review_q = <<>>
    /\ files_under_review = {}
    /\ \A v \in ReviewWorkers : vpc[v] \in {"get", "empty"}

C16_DoneOnlyAfterResearchExited ==
    /\ [](review_done => \A r \in ResearchWorkers : rpc[r] = "exited")
    /\ [](review_done <=> cpc \in {"join_review", "returned"} /\ research_tasks # <<>>)
    /\ [][review_done =>
            /\ review_done'
            /\ enqueued' = enqueued
            /\ Len(review_q') <= Len(review_q)]_vars

\* C16 witness: the flag is set with both research workers exited, while
\* an item put before is still on the review queue and a review worker is
\* taking work.
C16_Witness ==
    /\ review_done
    /\ \A r \in ResearchWorkers : rpc[r] = "exited"
    /\ Len(research_tasks) = 2
    /\ \A i \in TaskIds : enqueued[i] = 1
    /\ Len(review_q) = 1
    /\ \E v \in ReviewWorkers : vpc[v] = "review"

\* ------------------------------------------- main and run_pipeline, by run

\* The command line is about to be invoked, MaxRuns times at most, for the
\* same repository and project, with or without a session id.
PipeInit ==
    /\ InitRunTasks
    /\ research_tasks = <<>>
    /\ GuardIdle
    /\ RunIdle
    /\ LockingIdle
    /\ pipe \in {NoRun(sid) : sid \in BOOLEAN}

\* What this invocation has achieved for topic t: a review that finished
\* after a research that returned a handle; a handle only; or nothing.
Achieved(t) ==
    IF pipe.p_research[t] = "value" /\ pipe.p_review[t] = "none" THEN "completed"
    ELSE IF pipe.p_research[t] = "value" THEN "researched"
    ELSE "pending"

\* The further of two degrees of progress.
Further(a, b) ==
    IF "completed" \in {a, b} THEN "completed"
    ELSE IF "researched" \in {a, b} THEN "researched"
    ELSE "pending"

\* main, lines 280-288: a new process parses its arguments and calls
\* run_pipeline; nothing of an earlier invocation is read.
MainStarts ==
    /\ pipe.ppc = "exited"
    /\ pipe.invocation < MaxRuns
    /\ pipe' = [pipe EXCEPT
                  !.invocation = @ + 1,
                  !.ppc = "telemetry_init",
                  !.tasks = {},
                  !.p_research = [t \in Topics |-> "not_called"],
                  !.p_review = [t \in Topics |-> "not_called"],
                  !.exit_status = "none"]
    /\ UNCHANGED <<runTasksVars, guard, run, locking>>

\* run_pipeline, lines 240-242: with a session id, telemetry.init and
\* telemetry.status("running").
TelemetryInit ==
    /\ pipe.ppc = "telemetry_init"
    /\ pipe' = [pipe EXCEPT
                  !.telemetry_status = IF pipe.session_id THEN "running" ELSE @,
                  !.ppc = "check_env"]
    /\ UNCHANGED <<runTasksVars, guard, run, locking>>

\* run_pipeline, lines 244-246: a missing environment variable raises
\* EnvironmentError, which main does not catch: the process ends with
\* status 1.
CheckEnv(complete) ==
    /\ pipe.ppc = "check_env"
    /\ pipe' = IF complete
                 THEN [pipe EXCEPT !.ppc = "orchestrate"]
                 ELSE [pipe EXCEPT !.ppc = "exited", !.exit_status = "1"]
    /\ UNCHANGED <<runTasksVars, guard, run, locking>>

\* run_pipeline, lines 259-269: orchestrate is called, in every invocation,
\* and returns the research tasks.
Orchestrate(ts) ==
    /\ pipe.ppc = "orchestrate"
    /\ pipe' = [pipe EXCEPT !.tasks = ts, !.ppc = "run_tasks"]
    /\ UNCHANGED <<runTasksVars, guard, run, locking>>

\* run_pipeline, line 260: an exception of orchestrate is not caught.
OrchestrateRaises ==
    /\ pipe.ppc = "orchestrate"
    /\ pipe' = [pipe EXCEPT !.ppc = "exited", !.exit_status = "1"]
    /\ UNCHANGED <<runTasksVars, guard, run, locking>>

\* run_tasks line 200 and research_worker lines 71-109: every task returned
\* by orchestrate is put on research_q and researched once.
PipeResearch(t, outcome) ==
    /\ pipe.ppc = "run_tasks"
    /\ t \in pipe.tasks
    /\ pipe.p_research[t] = "not_called"
    /\ pipe' = [pipe EXCEPT !.p_research[t] = outcome]
    /\ UNCHANGED <<runTasksVars, guard, run, locking>>

\* review_worker, lines 155-178: the item of a research that returned a
\* handle in this invocation is reviewed.
PipeReview(t, outcome) ==
    /\ pipe.ppc = "run_tasks"
    /\ pipe.p_research[t] = "value"
    /\ pipe.p_review[t] = "not_called"
    /\ pipe' = [pipe EXCEPT !.p_review[t] = outcome]
    /\ UNCHANGED <<runTasksVars, guard, run, locking>>

\* run_tasks, lines 226-236: both joins are over once every task has been
\* researched and the review workers have exited (which they can do with
\* an item still unreviewed, lines 142-145).
RunTasksReturns ==
    /\ pipe.ppc = "run_tasks"
    /\ \A t \in pipe.tasks : pipe.p_research[t] # "not_called"
    /\ pipe' = [pipe EXCEPT !.ppc = "pipeline_done"]
    /\ UNCHANGED <<runTasksVars, guard, run, locking>>

\* run_pipeline, lines 271-277: whatever the calls did, "Finished" is
\* logged, pipeline_done is sent and the status is set to "completed".
PipelineDone ==
    /\ pipe.ppc = "pipeline_done"
    /\ pipe' = [pipe EXCEPT
                  !.telemetry_status = IF pipe.session_id THEN "completed" ELSE @,
                  !.ppc = "main_returns"]
    /\ UNCHANGED <<runTasksVars, guard, run, locking>>

\* main, line 288: run_pipeline returns, main returns, the process ends
\* with status 0.
MainReturns ==
    /\ pipe.ppc = "main_returns"
    /\ pipe' = [pipe EXCEPT
                  !.exit_status = "0",
                  !.ppc = "exited",
                  !.stored = [t \in Topics |-> Further(pipe.stored[t], Achieved(t))]]
    /\ UNCHANGED <<runTasksVars, guard, run, locking>>

PipeNext ==
    \/ MainStarts
    \/ TelemetryInit
    \/ \E complete \in BOOLEAN : CheckEnv(complete)
    \/ \E ts \in SUBSET Topics : Orchestrate(ts)
    \/ OrchestrateRaises
    \/ \E t \in Topics, o \in ResearchOutcomes : PipeResearch(t, o)
    \/ \E t \in Topics, o \in ReviewOutcomes : PipeReview(t, o)
    \/ RunTasksReturns
    \/ PipelineDone
    \/ MainReturns

PipelineSpec == PipeInit /\ [][PipeNext]_vars

\* C17 as stated (resumability): when an invocation after the first finds
\* that earlier invocations completed task a, got a handle for task b
\* without finishing its review, and achieved nothing for task c, it calls
\* no research for a or b and no review for a, and by the time it has run
\* its tasks it has called the review of b and the research of c.
C17_ResumeSkipsFinishedWork ==
    \A a, b, c \in Topics :
        (/\ pipe.invocation > 1
         /\ pipe.stored[a] = "completed"
         /\ pipe.stored[b] = "researched"
         /\ pipe.stored[c] = "pending")
           => /\ pipe.p_research[a] = "not_called"
              /\ pipe.p_review[a] = "not_called"
              /\ pipe.p_research[b] = "not_called"
              /\ pipe.ppc \in {"pipeline_done", "main_returns"}
                    => /\ pipe.p_review[b] # "not_called"
                       /\ pipe.p_research[c] # "not_called"

\* C18 as stated (idempotent re-run): an invocation that follows one in
\* which every task was completed makes no research call and no review
\* call.
C18_SecondRunMakesNoCalls ==
    (/\ pipe.invocation > 1
     /\ \A t \in Topics : pipe.stored[t] = "completed")
        => \A t \in Topics :
              /\ pipe.p_research[t] = "not_called"
              /\ pipe.p_review[t] = "not_called"

\* C19 as stated: a recorded status only moves forward (unset or pending,
\* then running, then completed or failed) and a completed status never
\* changes again, in this or any later invocation for the same run; and a
\* task completed by an earlier invocation is skipped by every later one.
C19_StatusMonotonicAndSticky ==
    /\ [][/\ pipe.telemetry_status = "completed"
                => pipe'.telemetry_status = "completed"
          /\ pipe.telemetry_status = "running"
                => pipe'.telemetry_status \in {"running", "completed", "failed"}]_vars
    /\ [](\A t \in Topics :
            pipe.stored[t] = "completed"
               => /\ pipe.p_research[t] = "not_called"
                  /\ pipe.p_review[t] = "not_called")

\* C20 as stated: when a research or review call of the invocation raised
\* or timed out, the process does not end with status 0 and the run is not
\* reported as completed; status 0 means that no call failed.
C20_FailureGivesNonZeroExit ==
    (\E t \in Topics :
        \/ pipe.p_research[t] \in {"raise", "timeout"}
        \/ pipe.p_review[t] \in {"raise", "timeout"})
      => /\ pipe.exit_status # "0"
         /\ (pipe.ppc \in {"main_returns", "exited"}
               => pipe.telemetry_status # "completed")

\* ------------------------------------------- run_tasks: stages and pools

\* C26: research and review are pipelined. The review workers are started
\* before the research workers (no research worker runs while a review
\* worker is unstarted), and a review worker at review_q.get takes an item
\* that is on the queue whatever the state of research: the done flag, the
\* research queue and the research workers play no part in that step. So a
\* review call can be executing while research tasks are unfinished.
C26_ReviewPipelinedWithResearch ==
    /\ []((\E r \in ResearchWorkers : rpc[r] # "unstarted")
            => \A v \in ReviewWorkers : vpc[v] # "unstarted")
    /\ [](\A v \in ReviewWorkers :
            (vpc[v] = "get" /\ review_q # <<>>) => ENABLED ReviewGetItem(v))
    /\ [][\A v \in ReviewWorkers :
            (vpc[v] = "get" /\ vpc'[v] = "check_lock")
               => UNCHANGED <<research_q, review_done, researchVars, coordVars>>]_vars

\* C26 witness: a review call is executing while a research call is still
\* executing and another task is finished; the done flag is not set.
C26_Witness ==
    /\ ~review_done
    /\ \E v \in ReviewWorkers : vpc[v] = "review"
    /\ \E r \in ResearchWorkers :
          rpc[r] = "call" /\ research_result[rtask[r]] = "pending"
    /\ \E i \in TaskIds : research_result[i] = "value"

\* The calls of one worker that have started and not finished: the call it
\* waits for in _run_with_timeout, and the calls it stopped waiting for,
\* whose daemon threads are still running.
CallsInFlight == guard.stale + (IF guard.t_alive THEN 1 ELSE 0)

\* C27 as stated, for the pool of one worker that the guard follows: the
\* number of calls started and not yet finished is at most the number of
\* workers, counting also the calls whose worker stopped waiting after a
\* timeout.
C27_CallsInFlightBoundedByPool ==
    CallsInFlight <= 1

\* The number of copies of task i's review item on the shared queue.
RECURSIVE InSeq(_, _)
InSeq(q, i) ==
    IF q = <<>> THEN 0
    ELSE (IF Head(q).research_agent_id = i THEN 1 ELSE 0) + InSeq(Tail(q), i)

\* Sum of f over the review workers 1..n.
RECURSIVE SumOver(_, _)
SumOver(f, n) == IF n = 0 THEN 0 ELSE f[n] + SumOver(f, n - 1)

\* Copies of task i's item on the private deferred lists.
InDeferred(i) ==
    SumOver([v \in ReviewWorkers |-> InSeq(deferred[v], i)], num_review)

\* Workers that have task i's item in hand: taken from the queue and being
\* checked, under review, or about to be released.
InHand(i) ==
    Cardinality({v \in ReviewWorkers :
                    /\ vpc[v] \in {"check_lock", "review", "release"}
                    /\ vtask[v].research_agent_id = i})

\* C29: deferring an item never puts it back on the shared review queue
\* (the queue is left as it is and the item is appended to the worker's own
\* deferred list), and every review item that has been enqueued is in
\* exactly one place: on the shared queue, on one worker's deferred list,
\* in the hands of one worker (being checked or under review), or finished
\* (its review call has ended and it is nowhere any more). Nothing that was
\* not enqueued is anywhere, and no item disappears before its review call
\* has ended.
C29_EachItemInOnePlace ==
    /\ [](\A i \in TaskIds :
            /\ InSeq(review_q, i) + InDeferred(i) + InHand(i) <= 1
            /\ enqueued[i] = 0 => InSeq(review_q, i) + InDeferred(i) + InHand(i) = 0
            /\ (enqueued[i] = 1 /\ review_result[i] = "pending")
                  => InSeq(review_q, i) + InDeferred(i) + InHand(i) = 1
            /\ review_result[i] # "pending"
                  => /\ InSeq(review_q, i) + InDeferred(i) = 0
                     /\ \A v \in ReviewWorkers :
                          vtask[v].research_agent_id = i => vpc[v] = "release")
    /\ [][\A v \in ReviewWorkers :
            (vpc[v] = "check_lock" /\ vpc'[v] # "check_lock"
               /\ vtask[v].file_path \in files_under_review)
              => /\ review_q' = review_q
                 /\ deferred' = [deferred EXCEPT ![v] = Append(@, vtask[v])]]_vars

\* C29 witness: of two enqueued items for the same file one is under
\* review and the other is on a deferred list, the shared queue being empty.
C29_Witness ==
    /\ Len(research_tasks) = 2
    /\ \A i \in TaskIds : enqueued[i] = 1
    /\ review_q = <<>>
    /\ \E v, w \in ReviewWorkers :
          /\ v # w
          /\ vpc[v] = "review"
          /\ Len(deferred[w]) = 1
          /\ deferred[w][1].file_path = vtask[v].file_path

\* --------------------- run_pipeline: environment, telemetry, tracing, ids

MaxEvents == 2
MaxTopics == 2
MaxTopicLen == 2

REQUIRED_ENV_VARS ==
    <<"GEMINI_API_KEY_0", "GITHUB_PAT", "ANTHROPIC_API_KEY", "PARALLEL_API_KEY",
      "BROWSER_USE_API_KEY", "LMNR_PROJECT_API_KEY">>

Required == {REQUIRED_ENV_VARS[i] : i \in 1..Len(REQUIRED_ENV_VARS)}

\* A variable of the environment is unset, set to the empty string, or set
\* to a non-empty value.
EnvValues == {"unset", "empty", "value"}

\* Python truth of what os.environ.get gives and of the telemetry globals:
\* None and the empty string are false.
Falsy(x) == x \in {"unset", "empty", "None"}

\* os.environ.get(name) for the two telemetry settings.
EnvironGet(x) == IF x = "unset" THEN "None" ELSE x

\* A variant that reports only the first missing variable.
MissingFirstOnly(environ) ==
    LET all == SelectSeq(REQUIRED_ENV_VARS, LAMBDA v : Falsy(environ[v]))
    IN  IF all = <<>> THEN <<>> ELSE <<all[1]>>

\* run_pipeline, line 244: [v for v in REQUIRED_ENV_VARS if not os.environ.get(v)].
Missing(environ) == SelectSeq(REQUIRED_ENV_VARS, LAMBDA v : Falsy(environ[v]))

\* The characters topics are made of here: a lower-case letter, an
\* upper-case letter, a digit, the separator and a blank.
Chars == {"a", "A", "1", "-", " "}

TopicTexts == UNION {[1..n -> Chars] : n \in 0..MaxTopicLen}

\* The task dicts orchestrate can return: with a topic, or without the key.
TaskDicts ==
    {[has_topic |-> TRUE, topic |-> t] : t \in TopicTexts}
        \cup {[has_topic |-> FALSE, topic |-> <<>>]}

\* Task lists of at most n tasks whose topics have at most m characters.
TaskDictLists(n, m) ==
    UNION {[1..l -> {d \in TaskDicts : Len(d.topic) <= m}] : l \in 0..n}

\* run_pipeline, line 263: task.get("topic", "unknown").
TopicOf(task) ==
    IF task.has_topic THEN task.topic ELSE <<"u", "n", "k", "n", "o", "w", "n">>

\* str.lower() on the characters above.
Lower(c) == IF c = "A" THEN "a" ELSE c

\* The characters matched by [a-z0-9] among those that occur.
AlnumLower == {"a", "1", "k", "n", "o", "u", "w"}

RECURSIVE DropNonAlnum(_)
DropNonAlnum(s) ==
    IF s = <<>> \/ Head(s) \in AlnumLower THEN s ELSE DropNonAlnum(Tail(s))

\* re.sub(r"[^a-z0-9]+", "-", s): every maximal run of other characters
\* becomes one "-".
RECURSIVE SubRuns(_)
SubRuns(s) ==
    IF s = <<>> THEN <<>>
    ELSE IF Head(s) \in AlnumLower THEN <<Head(s)>> \o SubRuns(Tail(s))
    ELSE <<"-">> \o SubRuns(DropNonAlnum(Tail(s)))

\* str.strip("-").
RECURSIVE LStrip(_)
LStrip(s) == IF s # <<>> /\ Head(s) = "-" THEN LStrip(Tail(s)) ELSE s

RECURSIVE RStrip(_)
RStrip(s) ==
    IF s # <<>> /\ s[Len(s)] = "-" THEN RStrip(SubSeq(s, 1, Len(s) - 1)) ELSE s

\* _topic_slug, lines 40-41.
topic_slug(topic) ==
    RStrip(LStrip(SubRuns([i \in 1..Len(topic) |-> Lower(topic[i])])))

\* run_pipeline is about to be called in a process with the given
\* environment; the telemetry module is as imported (lines 11-17).
NotCalled(environ, site, key, sid) ==
    [environ |-> environ,
     convex_site_url |-> site,
     beework_secret_key |-> key,
     session_arg |-> sid,
     session_id |-> "None",
     site_url |-> "None",
     secret |-> "None",
     buf |-> 0,
     flush_thread |-> "none",
     stop |-> FALSE,
     disabled_printed |-> FALSE,
     posts |-> <<>>,
     post_failed |-> FALSE,
     external |-> <<>>,
     raised |-> "none",
     message |-> <<>>,
     rpc |-> "start",
     opc |-> "idle",
     events |-> 0,
     step_stack |-> 0,
     trace_error |-> FALSE,
     returncode |-> 0,
     agent_rc |-> "unset",
     tasks |-> <<>>,
     ids |-> <<>>]

RunPipelineInit ==
    /\ InitRunTasks
    /\ research_tasks = <<>>
    /\ GuardIdle
    /\ PipeIdle
    /\ LockingIdle
    /\ run \in {NotCalled(e, site, key, sid) :
                  e \in [Required -> EnvValues],
                  site \in {"unset", "value"},
                  key \in {"unset", "value"},
                  sid \in BOOLEAN}

\* A variant of _post without its try/except: the exception of
\* requests.post propagates to the caller.
telemetry_post_uncaught(r, what, ok) ==
    [r EXCEPT !.posts = Append(@, what),
              !.post_failed = @ \/ ~ok,
              !.raised = IF ok THEN @ ELSE "RequestException"]

\* telemetry._post, lines 77-82: requests.post is called; an exception it
\* raises is caught and printed.
telemetry_post(r, what, ok) ==
    [r EXCEPT !.posts = Append(@, what),
              !.post_failed = @ \/ ~ok]

\* telemetry, lines 40, 56 and 67: `if not _session_id or not _site_url: return`.
Sending(r) == ~Falsy(r.session_id) /\ ~Falsy(r.site_url)

\* telemetry.init, lines 20-30.
telemetry_init(r) ==
    LET e == [r EXCEPT !.session_id = "value",
                       !.site_url = EnvironGet(r.convex_site_url),
                       !.secret = EnvironGet(r.beework_secret_key)]
    IN  IF Falsy(e.site_url) \/ Falsy(e.secret)
          THEN [e EXCEPT !.disabled_printed = TRUE]
          ELSE [e EXCEPT !.stop = FALSE, !.flush_thread = "running"]

\* telemetry.status, lines 66-69.
telemetry_status(r, new_status, ok) ==
    IF Sending(r) THEN telemetry_post(r, <<"/updateStatus", new_status>>, ok) ELSE r

\* telemetry.event, lines 55-63.
telemetry_event(r, event_type, ok) ==
    IF Sending(r) THEN telemetry_post(r, <<"/ingest", event_type>>, ok) ELSE r

\* telemetry.log, lines 50-52.
telemetry_log(r, lines) == [r EXCEPT !.buf = @ + lines]

\* telemetry._do_flush, lines 39-47.
telemetry_do_flush(r, ok) ==
    IF ~Sending(r) \/ r.buf = 0 THEN r
    ELSE telemetry_post([r EXCEPT !.buf = 0], <<"/ingest", "log">>, ok)

\* telemetry.flush, lines 72-74.
telemetry_flush(r, ok) == [telemetry_do_flush(r, ok) EXCEPT !.stop = TRUE]

\* Control goes on at the next position of run_pipeline, unless an
\* exception is propagating, which leaves run_pipeline.
Leave(r, next) ==
    IF r.raised # "none" THEN [r EXCEPT !.rpc = "raised"] ELSE [r EXCEPT !.rpc = next]

\* run_pipeline, lines 240-241: with a session id, telemetry.init.
CallTelemetryInit ==
    /\ run.rpc = "start"
    /\ run' = IF run.session_arg
                THEN [telemetry_init(run) EXCEPT !.rpc = "status_running"]
                ELSE [run EXCEPT !.rpc = "check_env"]
    /\ UNCHANGED <<runTasksVars, guard, pipe, locking>>

\* run_pipeline, line 242: telemetry.status("running").
PostStatusRunning(ok) ==
    /\ run.rpc = "status_running"
    /\ run' = Leave(telemetry_status(run, "running", ok), "check_env")
    /\ UNCHANGED <<runTasksVars, guard, pipe, locking>>

\* run_pipeline, lines 244-250: the required variables are tested; if any
\* is missing EnvironmentError is raised with their names; otherwise the
\* first line is logged.
ValidateEnv ==
    /\ run.rpc = "check_env"
    /\ run' = IF Missing(run.environ) # <<>>
                THEN [run EXCEPT !.raised = "EnvironmentError",
                                 !.message = Missing(run.environ),
                                 !.rpc = "raised"]
                ELSE [telemetry_log(run, 1) EXCEPT !.rpc = "pipeline_started"]
    /\ UNCHANGED <<runTasksVars, guard, pipe, locking>>

\* run_pipeline, lines 253-257: telemetry.event("pipeline_started").
SendPipelineStarted(ok) ==
    /\ run.rpc = "pipeline_started"
    /\ run' = Leave(telemetry_event(run, "pipeline_started", ok), "orchestrate")
    /\ UNCHANGED <<runTasksVars, guard, pipe, locking>>

\* run_pipeline, line 260, and the orchestrator's run up to its line 204:
\* orchestrate is called; it starts the agent process, which writes at most
\* MaxEvents events and ends with some exit code, and observes it.
CallOrchestrate(n, rc) ==
    /\ run.rpc = "orchestrate"
    /\ run' = [run EXCEPT !.external = Append(@, "orchestrate"),
                          !.rpc = "observe",
                          !.opc = "span",
                          !.events = n,
                          !.returncode = rc]
    /\ UNCHANGED <<runTasksVars, guard, pipe, locking>>

\* observe_agent_events, lines 65-73: the agent span is created; an
\* exception of Laminar is caught by line 134 and printed.
ObserveSpan(ok) ==
    /\ run.opc = "span"
    /\ run' = IF ok THEN [run EXCEPT !.opc = "events"]
              ELSE [run EXCEPT !.opc = "wait", !.trace_error = TRUE]
    /\ UNCHANGED <<runTasksVars, guard, pipe, locking>>

\* The event types that make a Laminar call (lines 78-122): step_finish
\* only with a step open.
Traced(etype, stack) ==
    \/ etype \in {"step_start", "tool_use", "text"}
    \/ etype = "step_finish" /\ stack > 0

\* observe_agent_events, lines 74-130: one event of the stream. A Laminar
\* call that raises ends the loop (line 134), the rest of the stream being
\* left unread; otherwise the span is opened or closed and the line is
\* printed and logged.
ObserveEvent(etype, ok) ==
    /\ run.opc = "events"
    /\ run.events > 0
    /\ ok \/ Traced(etype, run.step_stack)
    /\ run' =
         IF ~ok
           THEN [run EXCEPT !.opc = "wait", !.trace_error = TRUE]
           ELSE [run EXCEPT
                   !.events = @ - 1,
                   !.step_stack = CASE etype = "step_start" -> @ + 1
                                    [] etype = "step_finish" /\ @ > 0 -> @ - 1
                                    [] OTHER -> @,
                   !.buf = IF etype = "step_start" THEN @ ELSE @ + 1]
    /\ UNCHANGED <<runTasksVars, guard, pipe, locking>>

\* observe_agent_events, lines 132-133: the stream has ended; the spans
\* still open are ended.
ObserveStreamEnds(ok) ==
    /\ run.opc = "events"
    /\ run.events = 0
    /\ ok \/ run.step_stack > 0
    /\ run' = [run EXCEPT !.opc = "wait",
                          !.step_stack = IF ok THEN 0 ELSE @,
                          !.trace_error = @ \/ ~ok]
    /\ UNCHANGED <<runTasksVars, guard, pipe, locking>>

\* observe_agent_events, lines 137-138: proc.wait(), return proc.returncode.
ObserveReturns ==
    /\ run.opc = "wait"
    /\ run' = [run EXCEPT !.opc = "returned",
                          !.agent_rc = run.returncode,
                          !.rpc = "orchestrate_returns"]
    /\ UNCHANGED <<runTasksVars, guard, pipe, locking>>

\* run_pipeline, lines 260-261: orchestrate returns its research tasks.
OrchestrateGivesTasks(ts) ==
    /\ run.rpc = "orchestrate_returns"
    /\ run' = [run EXCEPT !.tasks = ts, !.rpc = "assign_ids"]
    /\ UNCHANGED <<runTasksVars, guard, pipe, locking>>

\* run_pipeline, lines 262-268: every task gets the slug of its topic as
\* its research_agent_id; one line is logged, and one per task.
AssignIds ==
    /\ run.rpc = "assign_ids"
    /\ run' = [telemetry_log(run, 1 + Len(run.tasks)) EXCEPT
                 !.ids = [i \in 1..Len(run.tasks) |-> topic_slug(TopicOf(run.tasks[i]))],
                 !.rpc = "orchestrator_done"]
    /\ UNCHANGED <<runTasksVars, guard, pipe, locking>>

\* run_pipeline, line 269: telemetry.event("orchestrator_done").
SendOrchestratorDone(ok) ==
    /\ run.rpc = "orchestrator_done"
    /\ run' = Leave(telemetry_event(run, "orchestrator_done", ok), "run_tasks")
    /\ UNCHANGED <<runTasksVars, guard, pipe, locking>>

\* run_pipeline, line 271: run_tasks, seen from outside. Without tasks it
\* logs a line and returns (lines 187-190); with tasks its workers send
\* their events, make the research and review calls and log.
CallRunTasks(ok) ==
    /\ run.rpc = "run_tasks"
    /\ run' =
         IF run.tasks = <<>>
           THEN [telemetry_log(run, 1) EXCEPT !.rpc = "pipeline_done"]
           ELSE Leave([telemetry_log(telemetry_event(run, "researcher_started", ok), 1)
                         EXCEPT !.external = @ \o <<"research", "review">>],
                      "pipeline_done")
    /\ ok \/ run.tasks # <<>>
    /\ UNCHANGED <<runTasksVars, guard, pipe, locking>>

\* run_pipeline, lines 272-275: the last line is logged and
\* telemetry.event("pipeline_done") is sent.
SendPipelineDone(ok) ==
    /\ run.rpc = "pipeline_done"
    /\ run' = Leave(telemetry_event(telemetry_log(run, 1), "pipeline_done", ok),
                    "status_completed")
    /\ UNCHANGED <<runTasksVars, guard, pipe, locking>>

\* run_pipeline, line 276: telemetry.status("completed").
PostStatusCompleted(ok) ==
    /\ run.rpc = "status_completed"
    /\ run' = Leave(telemetry_status(run, "completed", ok), "flush")
    /\ UNCHANGED <<runTasksVars, guard, pipe, locking>>

\* run_pipeline, line 277: telemetry.flush(); run_pipeline returns.
CallFlush(ok) ==
    /\ run.rpc = "flush"
    /\ run' = Leave(telemetry_flush(run, ok), "returned")
    /\ UNCHANGED <<runTasksVars, guard, pipe, locking>>

\* telemetry._flush_loop, lines 33-36, in its daemon thread: after each wait
\* _do_flush posts the buffered lines; once _stop is set the loop ends.
FlushLoop(ok) ==
    /\ run.flush_thread = "running"
    /\ run.rpc \notin {"raised", "returned"}
    /\ run.buf > 0 \/ run.stop
    /\ run' = [telemetry_do_flush(run, ok) EXCEPT
                 !.flush_thread = IF run.stop THEN "ended" ELSE @]
    /\ UNCHANGED <<runTasksVars, guard, pipe, locking>>

EventTypes == {"step_start", "step_finish", "tool_use", "text", "error"}

RunPipelineNext ==
    \/ CallTelemetryInit
    \/ \E ok \in BOOLEAN : PostStatusRunning(ok)
    \/ ValidateEnv
    \/ \E ok \in BOOLEAN : SendPipelineStarted(ok)
    \/ \E n \in 0..MaxEvents, rc \in {0, 1} : CallOrchestrate(n, rc)
    \/ \E ok \in BOOLEAN : ObserveSpan(ok)
    \/ \E etype \in EventTypes, ok \in BOOLEAN : ObserveEvent(etype, ok)
    \/ \E ok \in BOOLEAN : ObserveStreamEnds(ok)
    \/ ObserveReturns
    \/ \E ts \in TaskDictLists(1, 1) : OrchestrateGivesTasks(ts)
    \/ AssignIds
    \/ \E ok \in BOOLEAN : SendOrchestratorDone(ok)
    \/ \E ok \in BOOLEAN : CallRunTasks(ok)
    \/ \E ok \in BOOLEAN : SendPipelineDone(ok)
    \/ \E ok \in BOOLEAN : PostStatusCompleted(ok)
    \/ \E ok \in BOOLEAN : CallFlush(ok)
    \/ \E ok \in BOOLEAN : FlushLoop(ok)

RunPipelineSpec == RunPipelineInit /\ [][RunPipelineNext]_vars

\* The state of run_pipeline when orchestrate is about to return, in a
\* process with every required variable set and no session id.
AboutToGetTasks ==
    [NotCalled([v \in Required |-> "value"], "unset", "unset", FALSE) EXCEPT
       !.rpc = "orchestrate_returns",
       !.opc = "returned",
       !.buf = 1,
       !.external = <<"orchestrate">>,
       !.agent_rc = 0]

AssignIdsInit ==
    /\ InitRunTasks
    /\ research_tasks = <<>>
    /\ GuardIdle
    /\ PipeIdle
    /\ LockingIdle
    /\ run = AboutToGetTasks

AssignIdsNext ==
    \/ \E ts \in TaskDictLists(MaxTopics, MaxTopicLen) : OrchestrateGivesTasks(ts)
    \/ AssignIds

\* run_pipeline lines 260-263 for every task list orchestrate can return.
AssignIdsSpec == AssignIdsInit /\ [][AssignIdsNext]_vars

\* C21 as stated: when a required environment variable is missing,
\* run_pipeline has made no external call by the time the error is raised:
\* no orchestration, research or review call and no HTTP post to the
\* telemetry sink.
C21_NoExternalCallBeforeEnvError ==
    run.raised = "EnvironmentError"
        => (run.posts = <<>> /\ run.external = <<>>)

\* C22: when required environment variables are missing (unset, or set to
\* the empty string, which os.environ.get gives as a false value),
\* run_pipeline raises one EnvironmentError whose message names every
\* missing variable of REQUIRED_ENV_VARS once, in their order, and no
\* variable that has a value; it raises it in every run in which a variable
\* is missing and in no other.
C22_ErrorNamesExactlyTheMissing ==
    /\ run.raised = "EnvironmentError"
          => /\ run.rpc = "raised"
             /\ \A v \in Required :
                   (\E n \in 1..Len(run.message) : run.message[n] = v)
                       <=> run.environ[v] # "value"
             /\ \A m, n \in 1..Len(run.message) :
                   m < n => \E a, b \in 1..Len(REQUIRED_ENV_VARS) :
                               /\ a < b
                               /\ REQUIRED_ENV_VARS[a] = run.message[m]
                               /\ REQUIRED_ENV_VARS[b] = run.message[n]
    /\ (\E v \in Required : run.environ[v] # "value")
          => (run.rpc \in {"start", "status_running", "check_env"}
                \/ run.raised = "EnvironmentError")
    /\ (\A v \in Required : run.environ[v] = "value")
          => run.raised # "EnvironmentError"

\* C22 witness: the error has been raised naming three variables, of which
\* one is set to the empty string and two are unset, the other three
\* having values.
C22_Witness ==
    /\ run.raised = "EnvironmentError"
    /\ run.message = <<"GITHUB_PAT", "PARALLEL_API_KEY", "LMNR_PROJECT_API_KEY">>
    /\ run.environ["GITHUB_PAT"] = "empty"
    /\ run.environ["PARALLEL_API_KEY"] = "unset"
    /\ run.environ["GEMINI_API_KEY_0"] = "value"

\* C23 as stated: the ids assigned to the tasks of one run are pairwise
\* distinct, also when two topics reduce to the same slug; and each id is
\* lower-case alphanumeric text with single separators inside and none at
\* its ends.
C23_IdsDistinct ==
    run.rpc = "orchestrator_done"
        => /\ Len(run.ids) = Len(run.tasks)
           /\ \A i, j \in 1..Len(run.ids) : i # j => run.ids[i] # run.ids[j]
           /\ \A i \in 1..Len(run.ids) :
                 LET id == run.ids[i]
                 IN  /\ \A n \in 1..Len(id) : id[n] \in AlnumLower \cup {"-"}
                     /\ id # <<>> => (id[1] # "-" /\ id[Len(id)] # "-")
                     /\ \A n \in 1..(Len(id) - 1) : ~(id[n] = "-" /\ id[n + 1] = "-")

\* The position that follows each position of run_pipeline: it depends on
\* the arguments and the environment only.
NextPosition(r) ==
    CASE r.rpc = "start" -> IF r.session_arg THEN "status_running" ELSE "check_env"
      [] r.rpc = "status_running" -> "check_env"
      [] r.rpc = "check_env" ->
            IF \E v \in Required : r.environ[v] # "value"
              THEN "raised" ELSE "pipeline_started"
      [] r.rpc = "pipeline_started" -> "orchestrate"
      [] r.rpc = "orchestrate" -> "observe"
      [] r.rpc = "observe" -> "orchestrate_returns"
      [] r.rpc = "orchestrate_returns" -> "assign_ids"
      [] r.rpc = "assign_ids" -> "orchestrator_done"
      [] r.rpc = "orchestrator_done" -> "run_tasks"
      [] r.rpc = "run_tasks" -> "pipeline_done"
      [] r.rpc = "pipeline_done" -> "status_completed"
      [] r.rpc = "status_completed" -> "flush"
      [] r.rpc = "flush" -> "returned"
      [] OTHER -> r.rpc

\* C24: a failure of the telemetry sink or of span creation never
\* propagates. No exception but the EnvironmentError of the environment
\* check leaves run_pipeline; every telemetry.event, telemetry.status and
\* telemetry.flush is followed by the position that follows it with a
\* working sink; and observe_agent_events, whether or not a Laminar call
\* raised, goes on to proc.wait() and returns the exit code of the process.
C24_TelemetryFailuresDoNotPropagate ==
    /\ [](run.raised \in {"none", "EnvironmentError"})
    /\ [][run'.rpc # run.rpc => run'.rpc = NextPosition(run)]_vars
    /\ [][(run.opc \in {"span", "events"} /\ run'.opc \notin {"span", "events"})
            => run'.opc = "wait"]_vars
    /\ [][(run.opc = "wait" /\ run'.opc # "wait")
            => /\ run'.opc = "returned"
               /\ run'.agent_rc = run.returncode
               /\ run'.rpc = "orchestrate_returns"]_vars
    /\ [](run.rpc = "returned" => run.stop)

\* C24 witness: run_pipeline has returned although posts to the sink failed
\* and a Laminar call raised while the agent was observed;
\* observe_agent_events gave the exit code 1 of the process.
C24_Witness ==
    /\ run.rpc = "returned"
    /\ run.post_failed
    /\ run.trace_error
    /\ run.returncode = 1
    /\ run.agent_rc = 1
    /\ Len(run.posts) >= 5

\* C25 as stated: when telemetry is unconfigured (init was never called, or
\* init ran with CONVEX_SITE_URL or BEEWORK_SECRET_KEY unset and printed
\* that telemetry is disabled), event, status, log and flush make no HTTP
\* post and raise nothing.
C25_UnconfiguredMakesNoPost ==
    (run.session_id = "None" \/ run.disabled_printed)
        => /\ run.posts = <<>>
           /\ run.raised \in {"none", "EnvironmentError"}

\* ------------------------------------ the review workers and review_lock

MaxItems == 3

\* The review item of pull request n for the file path p.
LockItem(n, p) == [pr |-> n, file_path |-> p]

NoLockItem == [pr |-> None, file_path |-> ""]

\* The contents of review_q once research has put its items: at most
\* MaxItems items, taken up to the renaming of the two paths.
LockItemLists ==
    {[n \in 1..l |-> LockItem(n, ps[n])] :
        l \in 0..MaxItems,
        ps \in {t \in [1..MaxItems -> Paths] : t[1] = "docs/a.md"}}

\* run_tasks lines 192-209 and review_worker line 134: the review workers
\* are started, each at the top of its loop with an empty deferred list.
LockInit ==
    /\ InitRunTasks
    /\ research_tasks = <<>>
    /\ GuardIdle
    /\ PipeIdle
    /\ RunIdle
    /\ locking \in
         {[review_q |-> q,
           files_under_review |-> {},
           review_lock |-> 0,
           done_event |-> FALSE,
           lpc |-> [v \in ReviewWorkers |-> "top"],
           task |-> [v \in ReviewWorkers |-> NoLockItem],
           deferred |-> [v \in ReviewWorkers |-> <<>>],
           k |-> [v \in ReviewWorkers |-> 0]] : q \in LockItemLists}

\* review_worker line 137 and _take_unlocked lines 118-120: the call; with
\* an empty deferred list the loop body never runs and None is returned.
TakeUnlockedCall(v) ==
    /\ locking.lpc[v] = "top"
    /\ locking' =
         IF locking.deferred[v] = <<>>
           THEN [locking EXCEPT !.lpc[v] = "get"]
           ELSE [locking EXCEPT !.lpc[v] = "take_lock", !.k[v] = 1]
    /\ UNCHANGED <<runTasksVars, guard, pipe, run>>

\* _take_unlocked, line 122: `with review_lock` acquires the lock, waiting
\* while another worker holds it.
AcquireInTake(v) ==
    /\ locking.lpc[v] = "take_lock"
    /\ locking.review_lock = 0
    /\ locking' = [locking EXCEPT !.review_lock = v, !.lpc[v] = "take_test"]
    /\ UNCHANGED <<runTasksVars, guard, pipe, run>>

\* _take_unlocked, line 123: the membership test.
TestInTake(v) ==
    /\ locking.lpc[v] = "take_test"
    /\ locking' =
         [locking EXCEPT !.lpc[v] =
            IF locking.deferred[v][locking.k[v]].file_path
                  \notin locking.files_under_review
              THEN "take_add" ELSE "take_refused"]
    /\ UNCHANGED <<runTasksVars, guard, pipe, run>>

\* _take_unlocked, lines 124-125: the path is added and the item is taken.
AddInTake(v) ==
    /\ locking.lpc[v] = "take_add"
    /\ locking' =
         [locking EXCEPT
            !.files_under_review = @ \cup {locking.deferred[v][locking.k[v]].file_path},
            !.task[v] = locking.deferred[v][locking.k[v]],
            !.lpc[v] = "take_continue"]
    /\ UNCHANGED <<runTasksVars, guard, pipe, run>>

\* _take_unlocked, lines 126-129: continue leaves the with block, which
\* releases the lock; the rest of the loop copies the other items, the list
\* is replaced by the items not taken, and the item is returned to
\* review_worker, which goes on to the review call (line 155).
ContinueInTake(v) ==
    /\ locking.lpc[v] = "take_continue"
    /\ locking' =
         [locking EXCEPT
            !.review_lock = 0,
            !.deferred[v] = RemoveAt(@, locking.k[v]),
            !.k[v] = 0,
            !.lpc[v] = "review"]
    /\ UNCHANGED <<runTasksVars, guard, pipe, run>>

\* A variant that does not keep a refused item: it is not appended to
\* remaining.
RefusedInTakeDrops(v) ==
    /\ locking.lpc[v] = "take_refused"
    /\ locking' =
         IF locking.k[v] = Len(locking.deferred[v])
           THEN [locking EXCEPT
                   !.review_lock = 0,
                   !.deferred[v] = RemoveAt(@, locking.k[v]),
                   !.k[v] = 0,
                   !.lpc[v] = "get"]
           ELSE [locking EXCEPT
                   !.review_lock = 0,
                   !.deferred[v] = RemoveAt(@, locking.k[v]),
                   !.lpc[v] = "take_lock"]
    /\ UNCHANGED <<runTasksVars, guard, pipe, run>>

\* _take_unlocked, lines 123-129 for a locked path: the with block ends,
\* releasing the lock, and the item is appended to remaining; after the
\* last item the list is replaced by remaining (the same items) and None
\* is returned, so that review_worker goes to review_q.get.
RefusedInTake(v) ==
    /\ locking.lpc[v] = "take_refused"
    /\ locking' =
         IF locking.k[v] = Len(locking.deferred[v])
           THEN [locking EXCEPT !.review_lock = 0, !.k[v] = 0, !.lpc[v] = "get"]
           ELSE [locking EXCEPT !.review_lock = 0, !.k[v] = @ + 1,
                                !.lpc[v] = "take_lock"]
    /\ UNCHANGED <<runTasksVars, guard, pipe, run>>

\* review_worker, line 142: review_q.get gives the head of the queue.
LockGetItem(v) ==
    /\ locking.lpc[v] = "get"
    /\ locking.review_q # <<>>
    /\ locking' = [locking EXCEPT
                     !.task[v] = Head(locking.review_q),
                     !.review_q = Tail(@),
                     !.lpc[v] = "check_lock"]
    /\ UNCHANGED <<runTasksVars, guard, pipe, run>>

\* review_worker, lines 142-143: the poll interval ends on an empty queue.
LockGetEmpty(v) ==
    /\ locking.lpc[v] = "get"
    /\ locking.review_q = <<>>
    /\ locking' = [locking EXCEPT !.lpc[v] = "empty"]
    /\ UNCHANGED <<runTasksVars, guard, pipe, run>>

\* review_worker, lines 144-146: break or continue.
LockCheckDone(v) ==
    /\ locking.lpc[v] = "empty"
    /\ locking' =
         [locking EXCEPT !.lpc[v] =
            IF locking.done_event /\ locking.deferred[v] = <<>>
              THEN "exited" ELSE "top"]
    /\ UNCHANGED <<runTasksVars, guard, pipe, run>>

\* review_worker, line 149: `with review_lock` acquires the lock.
AcquireInCheck(v) ==
    /\ locking.lpc[v] = "check_lock"
    /\ locking.review_lock = 0
    /\ locking' = [locking EXCEPT !.review_lock = v, !.lpc[v] = "check_test"]
    /\ UNCHANGED <<runTasksVars, guard, pipe, run>>

\* review_worker, line 150: the membership test.
TestInCheck(v) ==
    /\ locking.lpc[v] = "check_test"
    /\ locking' =
         [locking EXCEPT !.lpc[v] =
            IF locking.task[v].file_path \in locking.files_under_review
              THEN "check_defer" ELSE "check_add"]
    /\ UNCHANGED <<runTasksVars, guard, pipe, run>>

\* A variant whose continue leaves the critical section without releasing
\* the lock.
DeferInCheckKeepsLock(v) ==
    /\ locking.lpc[v] = "check_defer"
    /\ locking' = [locking EXCEPT
                     !.deferred[v] = Append(@, locking.task[v]),
                     !.task[v] = NoLockItem,
                     !.lpc[v] = "top"]
    /\ UNCHANGED <<runTasksVars, guard, pipe, run>>

\* review_worker, lines 151-152: the item is appended to the deferred list;
\* continue leaves the with block, which releases the lock.
DeferInCheck(v) ==
    /\ locking.lpc[v] = "check_defer"
    /\ locking' = [locking EXCEPT
                     !.deferred[v] = Append(@, locking.task[v]),
                     !.task[v] = NoLockItem,
                     !.review_lock = 0,
                     !.lpc[v] = "top"]
    /\ UNCHANGED <<runTasksVars, guard, pipe, run>>

\* review_worker, line 153: the path is added; the with block ends,
\* releasing the lock, and the review call starts (lines 155-168).
AddInCheck(v) ==
    /\ locking.lpc[v] = "check_add"
    /\ locking' = [locking EXCEPT
                     !.files_under_review = @ \cup {locking.task[v].file_path},
                     !.review_lock = 0,
                     !.lpc[v] = "review"]
    /\ UNCHANGED <<runTasksVars, guard, pipe, run>>

\* review_worker, lines 156-176: _run_with_timeout returns, at the deadline
\* at the latest, or re-raises; the worker reaches the finally block.
LockReviewEnds(v, outcome) ==
    /\ locking.lpc[v] = "review"
    /\ outcome \in ReviewOutcomes
    /\ locking' = [locking EXCEPT !.lpc[v] = "finally_lock"]
    /\ UNCHANGED <<runTasksVars, guard, pipe, run>>

\* review_worker, line 177: `with review_lock` acquires the lock.
AcquireInFinally(v) ==
    /\ locking.lpc[v] = "finally_lock"
    /\ locking.review_lock = 0
    /\ locking' = [locking EXCEPT !.review_lock = v, !.lpc[v] = "finally_discard"]
    /\ UNCHANGED <<runTasksVars, guard, pipe, run>>

\* review_worker, line 178: the path is discarded; the with block ends,
\* releasing the lock; the loop starts again.
DiscardInFinally(v) ==
    /\ locking.lpc[v] = "finally_discard"
    /\ locking' = [locking EXCEPT
                     !.files_under_review = @ \ {locking.task[v].file_path},
                     !.task[v] = NoLockItem,
                     !.review_lock = 0,
                     !.lpc[v] = "top"]
    /\ UNCHANGED <<runTasksVars, guard, pipe, run>>

\* run_tasks, line 232: review_done.set(), once research is over.
SetDoneEvent ==
    /\ ~locking.done_event
    /\ locking' = [locking EXCEPT !.done_event = TRUE]
    /\ UNCHANGED <<runTasksVars, guard, pipe, run>>

\* The steps of _take_unlocked.
TakeUnlockedSteps(v) ==
    \/ TakeUnlockedCall(v)
    \/ AcquireInTake(v)
    \/ TestInTake(v)
    \/ AddInTake(v)
    \/ ContinueInTake(v)
    \/ RefusedInTake(v)

\* The acquisitions of review_lock.
Acquire(v) ==
    \/ AcquireInTake(v)
    \/ AcquireInCheck(v)
    \/ AcquireInFinally(v)

LockWorker(v) ==
    \/ TakeUnlockedSteps(v)
    \/ LockGetItem(v)
    \/ LockGetEmpty(v)
    \/ LockCheckDone(v)
    \/ AcquireInCheck(v)
    \/ TestInCheck(v)
    \/ DeferInCheck(v)
    \/ AddInCheck(v)
    \/ \E o \in ReviewOutcomes : LockReviewEnds(v, o)
    \/ AcquireInFinally(v)
    \/ DiscardInFinally(v)

LockNext ==
    \/ \E v \in ReviewWorkers : LockWorker(v)
    \/ SetDoneEvent

LockSpec == LockInit /\ [][LockNext]_vars

\* Threads are scheduled fairly, every review call ends for its worker, and
\* a worker waiting for review_lock gets it if the lock is free again and
\* again.
FairLockSpec ==
    /\ LockSpec
    /\ \A v \in ReviewWorkers : WF_vars(LockWorker(v))
    /\ \A v \in ReviewWorkers : SF_vars(Acquire(v))

\* The positions inside a `with review_lock` block.
CriticalPositions ==
    {"take_test", "take_add", "take_continue", "take_refused",
     "check_test", "check_defer", "check_add", "finally_discard"}

\* The positions of a worker blocked in the acquisition of review_lock.
LockWaitPositions == {"take_lock", "check_lock", "finally_lock"}

DeferredLists ==
    {[n \in 1..l |-> LockItem(n, ps[n])] :
        l \in 0..MaxItems, ps \in [1..MaxItems -> Paths]}

\* What the other review workers hold when the call is made: each is in a
\* review call on a path of its own, or holds nothing.
OtherHoldings ==
    {h \in [ReviewWorkers \ {1} -> Paths \cup {""}] :
        \A v, w \in ReviewWorkers \ {1} : (v # w /\ h[v] # "") => h[v] # h[w]}

\* review_worker line 137: worker 1 is about to call _take_unlocked with a
\* deferred list and a lock set drawn from the possible ones; the other
\* workers stay where they are for the length of the call.
TakeUnlockedInit ==
    /\ InitRunTasks
    /\ research_tasks = <<>>
    /\ GuardIdle
    /\ PipeIdle
    /\ RunIdle
    /\ locking \in
         {[review_q |-> <<>>,
           files_under_review |-> {h[v] : v \in ReviewWorkers \ {1}} \ {""},
           review_lock |-> 0,
           done_event |-> FALSE,
           lpc |-> [v \in ReviewWorkers |->
                      IF v = 1 THEN "top"
                      ELSE IF h[v] = "" THEN "get" ELSE "review"],
           task |-> [v \in ReviewWorkers |->
                      IF v = 1 \/ h[v] = "" THEN NoLockItem
                      ELSE LockItem(MaxItems + v, h[v])],
           deferred |-> [v \in ReviewWorkers |-> IF v = 1 THEN d ELSE <<>>],
           k |-> [v \in ReviewWorkers |-> 0]] :
            d \in DeferredLists, h \in OtherHoldings}

TakeUnlockedNext == \E v \in ReviewWorkers : TakeUnlockedSteps(v)

TakeUnlockedSpec == TakeUnlockedInit /\ [][TakeUnlockedNext]_vars

\* The position of the first item of d whose path is not in F, 0 if every
\* item's path is in F.
FirstUnlocked(d, F) ==
    LET free == {j \in 1..Len(d) : d[j].file_path \notin F}
    IN  IF free = {} THEN 0
        ELSE CHOOSE j \in free : \A i \in free : j <= i

\* C28: in a call of _take_unlocked that no other worker interferes with,
\* the path added to files_under_review is that of the first deferred item
\* whose path was not in the set, and the test that found it free and the
\* add are made under one holding of review_lock; the call returns that
\* item, and the list it leaves is the old list without exactly that item,
\* the others in their order; the call returns None only if every deferred
\* item's path is in the set, and then list and set are as they were; the
\* list and the set change at no other step of the call.
C28_TakeUnlockedTakesFirstFree ==
    [][\A v \in ReviewWorkers :
         LET d == locking.deferred[v]
             F == locking.files_under_review
             j == locking.k[v]
             InCall == {"top", "take_lock", "take_test", "take_add",
                        "take_continue", "take_refused"}
         IN  /\ (locking.lpc[v] = "take_test" /\ locking.lpc'[v] = "take_add")
                  => /\ j = FirstUnlocked(d, F)
                     /\ locking.review_lock = v
                     /\ locking.review_lock' = v
             /\ (locking.lpc[v] = "take_add" /\ locking.lpc'[v] # "take_add")
                  => /\ locking.review_lock = v
                     /\ locking.review_lock' = v
                     /\ j = FirstUnlocked(d, F)
                     /\ locking.files_under_review' = F \cup {d[j].file_path}
                     /\ locking.task'[v] = d[j]
             /\ (locking.lpc[v] \in InCall /\ locking.lpc'[v] = "review")
                  => /\ locking.task'[v] = d[j]
                     /\ locking.task'[v].file_path \in F
                     /\ locking.files_under_review' = F
                     /\ Len(locking.deferred'[v]) = Len(d) - 1
                     /\ \A i \in 1..(Len(d) - 1) :
                          locking.deferred'[v][i] = IF i < j THEN d[i] ELSE d[i + 1]
                     /\ \A i \in 1..(j - 1) : d[i].file_path \in F
             /\ (locking.lpc[v] \in InCall /\ locking.lpc'[v] = "get")
                  => /\ FirstUnlocked(d, F) = 0
                     /\ locking.task'[v] = NoLockItem
                     /\ locking.deferred'[v] = d
                     /\ locking.files_under_review' = F
             /\ (locking.lpc[v] \in InCall /\ locking.deferred'[v] # d)
                  => locking.lpc'[v] = "review"
             /\ (locking.lpc[v] \in InCall /\ locking.files_under_review' # F)
                  => locking.lpc[v] = "take_add"]_vars

\* C28 witness: the call has returned the second of three deferred items,
\* the first being locked by the review of another worker; the third, whose
\* path was free as well, is still on the list after the first.
C28_Witness ==
    /\ locking.lpc[1] = "review"
    /\ locking.task[1] = LockItem(2, "docs/b.md")
    /\ locking.deferred[1] = <<LockItem(1, "docs/a.md"), LockItem(3, "docs/b.md")>>
    /\ locking.files_under_review = {"docs/a.md", "docs/b.md"}

\* --------------------------------- credentials selected by key_index

MaxKeyTasks == 6

\* f"GEMINI_API_KEY_{key_index}" for the key indexes 0..4.
GEMINI_KEY_NAMES ==
    <<"GEMINI_API_KEY_0", "GEMINI_API_KEY_1", "GEMINI_API_KEY_2",
      "GEMINI_API_KEY_3", "GEMINI_API_KEY_4">>

GeminiVar(key_index) == GEMINI_KEY_NAMES[key_index + 1]

EnvNames == Required \cup {GEMINI_KEY_NAMES[i] : i \in 1..Len(GEMINI_KEY_NAMES)}

\* The environments in which the check of run_pipeline lines 244-246
\* passes: every variable of REQUIRED_ENV_VARS has a non-empty value, the
\* others are as they may be.
ValidatedEnvirons == {e \in [EnvNames -> EnvValues] : Missing(e) = <<>>}

\* run() of the researcher: the call binds its keyword arguments to the
\* parameters of line 62, which has no parameter named label; then the
\* checks of lines 64-75 are made in order.
ResearcherRun(environ, key_index, with_label) ==
    IF with_label THEN "TypeError"
    ELSE IF \/ Falsy(environ[GeminiVar(key_index)])
            \/ Falsy(environ["GITHUB_PAT"])
            \/ Falsy(environ["BROWSER_USE_API_KEY"])
            \/ Falsy(environ["LMNR_PROJECT_API_KEY"])
           THEN "EnvironmentError"
    ELSE "started"

\* run_tasks is entered after a validation that passed, with 1..MaxKeyTasks
\* tasks; no key index is assigned yet.
KeysInit ==
    /\ InitRunTasks
    /\ research_tasks = <<>>
    /\ GuardIdle
    /\ PipeIdle
    /\ LockingIdle
    /\ run \in {[rpc |-> "assign_keys",
                 environ |-> e,
                 n |-> n,
                 key_index |-> <<>>,
                 outcome |-> [i \in 1..n |-> "not_called"]] :
                   e \in ValidatedEnvirons, n \in 1..MaxKeyTasks}

\* run_tasks, lines 198-200: one turn of the loop; the task at position i
\* (from 0) gets key_index i % NUM_GEMINI_KEYS and is put on research_q.
AssignKeyIndex ==
    /\ run.rpc = "assign_keys"
    /\ LET i == Len(run.key_index)
       IN  run' = [run EXCEPT
                     !.key_index = Append(@, KeyIndex(i + 1)),
                     !.rpc = IF i + 1 = run.n THEN "research" ELSE "assign_keys"]
    /\ UNCHANGED <<runTasksVars, guard, pipe, locking>>

\* research_worker, lines 77-90: the research call of task i, made with
\* key_index=task["key_index"] and label=slug.
DispatchResearch(i) ==
    /\ run.rpc = "research"
    /\ i \in 1..run.n
    /\ run.outcome[i] = "not_called"
    /\ run' = [run EXCEPT
                 !.outcome[i] = ResearcherRun(run.environ, run.key_index[i], TRUE)]
    /\ UNCHANGED <<runTasksVars, guard, pipe, locking>>

KeysNext ==
    \/ AssignKeyIndex
    \/ \E i \in 1..MaxKeyTasks : DispatchResearch(i)

KeysSpec == KeysInit /\ [][KeysNext]_vars

\* C31: after a validation that passed, every key index assigned to a task
\* is in 0..4, the variable GEMINI_API_KEY_<key_index> it selects is one of
\* the validated variables, and no research call ends in an
\* EnvironmentError.
C31_SelectedKeysWereValidated ==
    /\ \A i \in 1..Len(run.key_index) :
          /\ run.key_index[i] \in 0..(NUM_GEMINI_KEYS - 1)
          /\ GeminiVar(run.key_index[i]) \in Required
    /\ \A i \in 1..run.n : run.outcome[i] # "EnvironmentError"

\* ----------------------------------- lifecycle events of one run

MaxEventTasks == 2

\* The events telemetry.event has been called with, as counts: the three
\* events of run_pipeline, and per task the events of its research and of
\* the review of its pull request.
NoEvents ==
    [pipeline_started |-> 0,
     orchestrator_done |-> 0,
     pipeline_done |-> 0,
     researcher_started |-> [i \in 1..MaxEventTasks |-> 0],
     researcher_done |-> [i \in 1..MaxEventTasks |-> 0],
     pr_created |-> [i \in 1..MaxEventTasks |-> 0],
     reviewer_started |-> [i \in 1..MaxEventTasks |-> 0],
     reviewer_done |-> [i \in 1..MaxEventTasks |-> 0]]

\* The task lists orchestrate can return here.
EventTaskLists ==
    {t \in UNION {[1..n -> Paths] : n \in 0..MaxEventTasks} :
        t = <<>> \/ t[1] = "docs/a.md"}

\* run_pipeline has passed the check of lines 244-246 and is about to send
\* pipeline_started. The run record holds, for a run followed event by
\* event:
\*   rpc                position in run_pipeline and run_tasks
\*   tasks              file_path of each task orchestrate returned
\*   research_q, review_q, files_under_review, review_done, sentinels_put
\*                      the objects of run_tasks (items are task positions)
\*   rw, vw             per research / review worker: pc, task in hand,
\*                      outcome of its call, deferred list and scan position
\*   emitted            the calls of telemetry.event so far
\*   orchestrate_calls, research_calls   calls made so far
EventInit ==
    /\ InitRunTasks
    /\ research_tasks = <<>>
    /\ GuardIdle
    /\ PipeIdle
    /\ LockingIdle
    /\ run = [rpc |-> "pipeline_started",
              tasks |-> <<>>,
              research_q |-> <<>>,
              review_q |-> <<>>,
              files_under_review |-> {},
              review_done |-> FALSE,
              sentinels_put |-> 0,
              rw |-> [r \in ResearchWorkers |->
                        [pc |-> "unstarted", task |-> None, outcome |-> "none"]],
              vw |-> [v \in ReviewWorkers |->
                        [pc |-> "unstarted", task |-> None, deferred |-> <<>>,
                         scan |-> 0]],
              emitted |-> NoEvents,
              orchestrate_calls |-> 0,
              research_calls |-> 0]

\* run_pipeline, lines 253-257.
EmitPipelineStarted ==
    /\ run.rpc = "pipeline_started"
    /\ run' = [run EXCEPT !.emitted.pipeline_started = @ + 1,
                          !.rpc = "orchestrate"]
    /\ UNCHANGED <<runTasksVars, guard, pipe, locking>>

\* run_pipeline, lines 259-268: orchestrate returns the tasks.
EventOrchestrate(ts) ==
    /\ run.rpc = "orchestrate"
    /\ ts \in EventTaskLists
    /\ run' = [run EXCEPT !.tasks = ts,
                          !.orchestrate_calls = @ + 1,
                          !.rpc = "orchestrator_done"]
    /\ UNCHANGED <<runTasksVars, guard, pipe, locking>>

\* run_pipeline, line 269, and run_tasks, lines 187-200: orchestrator_done
\* is sent; run_tasks returns at once without tasks, else it makes the
\* queues and puts the tasks on research_q.
EmitOrchestratorDone ==
    /\ run.rpc = "orchestrator_done"
    /\ run' = [run EXCEPT
                 !.emitted.orchestrator_done = @ + 1,
                 !.research_q = [i \in 1..Len(run.tasks) |-> i],
                 !.rpc = IF run.tasks = <<>> THEN "pipeline_done" ELSE "start_review"]
    /\ UNCHANGED <<runTasksVars, guard, pipe, locking>>

\* run_tasks, lines 203-209.
EventStartReviewWorkers ==
    /\ run.rpc = "start_review"
    /\ run' = [run EXCEPT
                 !.vw = [v \in ReviewWorkers |-> [@[v] EXCEPT !.pc = "get"]],
                 !.rpc = "start_research"]
    /\ UNCHANGED <<runTasksVars, guard, pipe, locking>>

\* run_tasks, lines 212-218.
EventStartResearchWorkers ==
    /\ run.rpc = "start_research"
    /\ run' = [run EXCEPT
                 !.rw = [r \in ResearchWorkers |-> [@[r] EXCEPT !.pc = "get"]],
                 !.rpc = "sentinels"]
    /\ UNCHANGED <<runTasksVars, guard, pipe, locking>>

\* run_tasks, lines 224-225.
EventPutSentinel ==
    /\ run.rpc = "sentinels"
    /\ run' = [run EXCEPT
                 !.research_q = Append(@, None),
                 !.sentinels_put = @ + 1,
                 !.rpc = IF run.sentinels_put + 1 = num_research
                           THEN "join_research" ELSE "sentinels"]
    /\ UNCHANGED <<runTasksVars, guard, pipe, locking>>

\* run_tasks, lines 226-232.
EventSetReviewDone ==
    /\ run.rpc = "join_research"
    /\ \A r \in ResearchWorkers : run.rw[r].pc = "exited"
    /\ run' = [run EXCEPT !.review_done = TRUE, !.rpc = "join_review"]
    /\ UNCHANGED <<runTasksVars, guard, pipe, locking>>

\* A variant of run_tasks that does not join the review threads.
EventJoinReviewNoWait ==
    /\ run.rpc = "join_review"
    /\ run' = [run EXCEPT !.rpc = "pipeline_done"]
    /\ UNCHANGED <<runTasksVars, guard, pipe, locking>>

\* run_tasks, lines 233-236: every review thread is joined.
EventJoinReview ==
    /\ run.rpc = "join_review"
    /\ \A v \in ReviewWorkers : run.vw[v].pc = "exited"
    /\ run' = [run EXCEPT !.rpc = "pipeline_done"]
    /\ UNCHANGED <<runTasksVars, guard, pipe, locking>>

\* run_pipeline, lines 272-277: pipeline_done is sent, then the status and
\* the flush; run_pipeline returns.
EmitPipelineDone ==
    /\ run.rpc = "pipeline_done"
    /\ run' = [run EXCEPT !.emitted.pipeline_done = @ + 1, !.rpc = "returned"]
    /\ UNCHANGED <<runTasksVars, guard, pipe, locking>>

\* research_worker, lines 71-74.
EventResearchGet(r) ==
    /\ run.rw[r].pc = "get"
    /\ run.research_q # <<>>
    /\ run' = [run EXCEPT
                 !.research_q = Tail(@),
                 !.rw[r] = IF Head(run.research_q) = None
                             THEN [@ EXCEPT !.pc = "exited"]
                             ELSE [@ EXCEPT !.pc = "emit_started",
                                            !.task = Head(run.research_q)]]
    /\ UNCHANGED <<runTasksVars, guard, pipe, locking>>

\* research_worker, lines 75-90: researcher_started is sent and the
\* timeout-guarded research call starts.
EmitResearcherStarted(r) ==
    /\ run.rw[r].pc = "emit_started"
    /\ run' = [run EXCEPT
                 !.emitted.researcher_started[run.rw[r].task] = @ + 1,
                 !.research_calls = @ + 1,
                 !.rw[r].pc = "call"]
    /\ UNCHANGED <<runTasksVars, guard, pipe, locking>>

\* research_worker, lines 78-97 and 102, 106: _run_with_timeout gives the
\* outcome of the call; a pr that is not None is put on review_q.
EventResearchCallEnds(r, outcome) ==
    /\ run.rw[r].pc = "call"
    /\ outcome \in ResearchOutcomes
    /\ run' = [run EXCEPT
                 !.review_q = IF PutsReviewItem(outcome)
                                THEN Append(@, run.rw[r].task) ELSE @,
                 !.rw[r].outcome = outcome,
                 !.rw[r].pc = "emit_done"]
    /\ UNCHANGED <<runTasksVars, guard, pipe, locking>>

\* A variant that sends no researcher_done for a call abandoned at its
\* deadline.
EmitResearcherDoneUnlessTimeout(r) ==
    /\ run.rw[r].pc = "emit_done"
    /\ run' = [run EXCEPT
                 !.emitted.researcher_done[run.rw[r].task] =
                     IF run.rw[r].outcome = "timeout" THEN @ ELSE @ + 1,
                 !.rw[r].pc = IF PutsReviewItem(run.rw[r].outcome)
                                THEN "emit_pr_created" ELSE "get",
                 !.rw[r].task = IF PutsReviewItem(run.rw[r].outcome) THEN @ ELSE None]
    /\ UNCHANGED <<runTasksVars, guard, pipe, locking>>

\* research_worker, lines 98-100, 103-105 and 107-109: researcher_done is
\* sent in each of the three branches.
EmitResearcherDone(r) ==
    /\ run.rw[r].pc = "emit_done"
    /\ run' = [run EXCEPT
                 !.emitted.researcher_done[run.rw[r].task] = @ + 1,
                 !.rw[r].pc = IF PutsReviewItem(run.rw[r].outcome)
                                THEN "emit_pr_created" ELSE "get",
                 !.rw[r].task = IF PutsReviewItem(run.rw[r].outcome) THEN @ ELSE None]
    /\ UNCHANGED <<runTasksVars, guard, pipe, locking>>

\* research_worker, line 101: pr_created follows researcher_done.
EmitPrCreated(r) ==
    /\ run.rw[r].pc = "emit_pr_created"
    /\ run' = [run EXCEPT
                 !.emitted.pr_created[run.rw[r].task] = @ + 1,
                 !.rw[r].pc = "get",
                 !.rw[r].task = None]
    /\ UNCHANGED <<runTasksVars, guard, pipe, locking>>

\* review_worker, line 137, and _take_unlocked: one iteration on a
\* non-empty deferred list, as TakeUnlocked.
EventTakeUnlocked(v) ==
    /\ run.vw[v].pc = "take"
    /\ LET w == run.vw[v]
           i == w.deferred[w.scan]
       IN  run' =
             IF run.tasks[i] \notin run.files_under_review
               THEN [run EXCEPT
                       !.files_under_review = @ \cup {run.tasks[i]},
                       !.vw[v] = [pc |-> "emit_started", task |-> i,
                                  deferred |-> RemoveAt(w.deferred, w.scan),
                                  scan |-> 0]]
               ELSE IF w.scan = Len(w.deferred)
                 THEN [run EXCEPT !.vw[v].pc = "get", !.vw[v].scan = 0]
                 ELSE [run EXCEPT !.vw[v].scan = @ + 1]
    /\ UNCHANGED <<runTasksVars, guard, pipe, locking>>

\* review_worker, line 142.
EventReviewGetItem(v) ==
    /\ run.vw[v].pc = "get"
    /\ run.review_q # <<>>
    /\ run' = [run EXCEPT
                 !.review_q = Tail(@),
                 !.vw[v].task = Head(run.review_q),
                 !.vw[v].pc = "check_lock"]
    /\ UNCHANGED <<runTasksVars, guard, pipe, locking>>

\* review_worker, lines 142-143.
EventReviewGetEmpty(v) ==
    /\ run.vw[v].pc = "get"
    /\ run.review_q = <<>>
    /\ run' = [run EXCEPT !.vw[v].pc = "empty"]
    /\ UNCHANGED <<runTasksVars, guard, pipe, locking>>

\* review_worker, lines 144-146.
EventReviewCheckDone(v) ==
    /\ run.vw[v].pc = "empty"
    /\ run' = [run EXCEPT
                 !.vw[v].pc =
                    IF run.review_done /\ run.vw[v].deferred = <<>>
                      THEN "exited" ELSE LoopTop(run.vw[v].deferred),
                 !.vw[v].scan =
                    IF run.review_done /\ run.vw[v].deferred = <<>>
                      THEN @ ELSE FirstScan(run.vw[v].deferred)]
    /\ UNCHANGED <<runTasksVars, guard, pipe, locking>>

\* review_worker, lines 149-153.
EventReviewCheckLock(v) ==
    /\ run.vw[v].pc = "check_lock"
    /\ LET w == run.vw[v]
       IN  run' =
             IF run.tasks[w.task] \in run.files_under_review
               THEN [run EXCEPT
                       !.vw[v] = [pc |-> "take", task |-> None,
                                  deferred |-> Append(w.deferred, w.task),
                                  scan |-> 1]]
               ELSE [run EXCEPT
                       !.files_under_review = @ \cup {run.tasks[w.task]},
                       !.vw[v].pc = "emit_started"]
    /\ UNCHANGED <<runTasksVars, guard, pipe, locking>>

\* review_worker, lines 155-168: reviewer_started is sent and the
\* timeout-guarded review call starts.
EmitReviewerStarted(v) ==
    /\ run.vw[v].pc = "emit_started"
    /\ run' = [run EXCEPT
                 !.emitted.reviewer_started[run.vw[v].task] = @ + 1,
                 !.vw[v].pc = "review"]
    /\ UNCHANGED <<runTasksVars, guard, pipe, locking>>

\* review_worker, lines 159-170 and 172-174: the call returns, is given up
\* at its deadline, or raises and is caught.
EventReviewCallEnds(v, outcome) ==
    /\ run.vw[v].pc = "review"
    /\ outcome \in ReviewOutcomes
    /\ run' = [run EXCEPT !.vw[v].pc = "emit_done"]
    /\ UNCHANGED <<runTasksVars, guard, pipe, locking>>

\* review_worker, lines 171 and 175: reviewer_done is sent in either branch.
EmitReviewerDone(v) ==
    /\ run.vw[v].pc = "emit_done"
    /\ run' = [run EXCEPT
                 !.emitted.reviewer_done[run.vw[v].task] = @ + 1,
                 !.vw[v].pc = "release"]
    /\ UNCHANGED <<runTasksVars, guard, pipe, locking>>

\* review_worker, lines 176-178.
EventReviewRelease(v) ==
    /\ run.vw[v].pc = "release"
    /\ run' = [run EXCEPT
                 !.files_under_review = @ \ {run.tasks[run.vw[v].task]},
                 !.vw[v].task = None,
                 !.vw[v].pc = LoopTop(run.vw[v].deferred),
                 !.vw[v].scan = FirstScan(run.vw[v].deferred)]
    /\ UNCHANGED <<runTasksVars, guard, pipe, locking>>

EventMain ==
    \/ EmitPipelineStarted
    \/ \E ts \in EventTaskLists : EventOrchestrate(ts)
    \/ EmitOrchestratorDone
    \/ EventStartReviewWorkers
    \/ EventStartResearchWorkers
    \/ EventPutSentinel
    \/ EventSetReviewDone
    \/ EventJoinReview
    \/ EmitPipelineDone

EventResearchWorker(r) ==
    \/ EventResearchGet(r)
    \/ EmitResearcherStarted(r)
    \/ \E o \in ResearchOutcomes : EventResearchCallEnds(r, o)
    \/ EmitResearcherDone(r)
    \/ EmitPrCreated(r)

EventReviewWorker(v) ==
    \/ EventTakeUnlocked(v)
    \/ EventReviewGetItem(v)
    \/ EventReviewGetEmpty(v)
    \/ EventReviewCheckDone(v)
    \/ EventReviewCheckLock(v)
    \/ EmitReviewerStarted(v)
    \/ \E o \in ReviewOutcomes : EventReviewCallEnds(v, o)
    \/ EmitReviewerDone(v)
    \/ EventReviewRelease(v)

EventNext ==
    \/ EventMain
    \/ \E r \in ResearchWorkers : EventResearchWorker(r)
    \/ \E v \in ReviewWorkers : EventReviewWorker(v)

EventSpec == EventInit /\ [][EventNext]_vars

\* Threads are scheduled fairly and every external call ends for its
\* caller, at its deadline at the latest.
FairEventSpec ==
    /\ EventSpec
    /\ WF_vars(EventMain)
    /\ \A r \in ResearchWorkers : WF_vars(EventResearchWorker(r))
    /\ \A v \in ReviewWorkers : WF_vars(EventReviewWorker(v))

\* C32: in a run, pipeline_started is sent before orchestrator_done,
\* orchestrator_done before any researcher_started, and once pipeline_done
\* is sent every worker thread has ended, so that no researcher_done or
\* reviewer_done is sent after it; each of the three events is sent at most
\* once; orchestrate is called at most once, has been called before any
\* research call, and has been called once when run_pipeline returns.
C32_LifecycleEventsInPhaseOrder ==
    /\ [](/\ run.emitted.pipeline_started <= 1
          /\ run.emitted.orchestrator_done <= 1
          /\ run.emitted.pipeline_done <= 1
          /\ run.emitted.orchestrator_done > 0 => run.emitted.pipeline_started > 0
          /\ run.emitted.pipeline_done > 0 => run.emitted.orchestrator_done > 0
          /\ \A i \in 1..MaxEventTasks :
                run.emitted.researcher_started[i] > 0
                  => run.emitted.orchestrator_done > 0
          /\ run.emitted.pipeline_done > 0
                => /\ \A r \in ResearchWorkers : run.rw[r].pc \in {"unstarted", "exited"}
                   /\ \A v \in ReviewWorkers : run.vw[v].pc \in {"unstarted", "exited"}
          /\ run.orchestrate_calls <= 1
          /\ run.research_calls > 0 => run.orchestrate_calls = 1
          /\ run.rpc = "returned" => run.orchestrate_calls = 1)
    /\ [][run.emitted.pipeline_done > 0
            => /\ run.emitted.researcher_done' = run.emitted.researcher_done
               /\ run.emitted.reviewer_done' = run.emitted.reviewer_done]_vars

\* C32 witness: run_pipeline has returned after a run in which both tasks
\* were researched and the pull request of the first was reviewed.
C32_Witness ==
    /\ run.rpc = "returned"
    /\ run.emitted.pipeline_done = 1
    /\ run.emitted.researcher_done = [i \in 1..MaxEventTasks |-> 1]
    /\ run.emitted.reviewer_done[1] = 1

\* C33: per task, researcher_started and researcher_done are sent at most
\* once, and a researcher_started without its researcher_done means that a
\* research worker is in the call for that task or about to send the
\* event; the same for reviewer_started and reviewer_done of the task's
\* pull request; and with fair scheduling every started event is followed
\* by its done event, whichever way the call ends.
C33_StartedFollowedByOneDone ==
    /\ [](\A i \in 1..MaxEventTasks :
            /\ run.emitted.researcher_started[i] <= 1
            /\ run.emitted.researcher_done[i] <= run.emitted.researcher_started[i]
            /\ (run.emitted.researcher_done[i] < run.emitted.researcher_started[i])
                 <=> \E r \in ResearchWorkers :
                        /\ run.rw[r].task = i
                        /\ run.rw[r].pc \in {"call", "emit_done"}
            /\ run.emitted.reviewer_started[i] <= 1
            /\ run.emitted.reviewer_done[i] <= run.emitted.reviewer_started[i]
            /\ (run.emitted.reviewer_done[i] < run.emitted.reviewer_started[i])
                 <=> \E v \in ReviewWorkers :
                        /\ run.vw[v].task = i
                        /\ run.vw[v].pc \in {"review", "emit_done"})
    /\ \A i \in 1..MaxEventTasks :
          /\ (run.emitted.researcher_started[i] = 1)
                ~> (run.emitted.researcher_done[i] = 1)
          /\ (run.emitted.reviewer_started[i] = 1)
                ~> (run.emitted.reviewer_done[i] = 1)

\* C33 witness: the research call of the first task was given up at its
\* deadline and its researcher_done has been sent; the second task's pull
\* request has its reviewer_started and reviewer_done.
C33_Witness ==
    /\ \E r \in ResearchWorkers :
          run.rw[r].outcome = "timeout" /\ run.rw[r].pc \in {"get", "exited"}
    /\ run.emitted.researcher_started[1] = 1
    /\ run.emitted.researcher_done[1] = 1
    /\ run.emitted.reviewer_started[2] = 1
    /\ run.emitted.reviewer_done[2] = 1

\* C34: whenever reviewer_started has been sent for a pull request, the
\* researcher_done and pr_created events of the research that produced it
\* have been sent.
C34_ResearchEventsBeforeReviewerStarted ==
    \A i \in 1..MaxEventTasks :
        run.emitted.reviewer_started[i] > 0
          => /\ run.emitted.researcher_done[i] > 0
             /\ run.emitted.pr_created[i] > 0

\* C35: when run_pipeline has returned or raised after posting the status
\* "running", it has posted a terminal status ("completed" or "failed")
\* after it and has called telemetry.flush.
C35_RunningRunReportsTerminalStatus ==
    (/\ run.rpc \in {"raised", "returned"}
     /\ \E k \in 1..Len(run.posts) : run.posts[k] = <<"/updateStatus", "running">>)
      => /\ \E k \in 1..Len(run.posts) :
               /\ run.posts[k] = <<"/updateStatus", "running">>
               /\ \E j \in (k + 1)..Len(run.posts) :
                     run.posts[j] \in {<<"/updateStatus", "completed">>,
                                       <<"/updateStatus", "failed">>}
         /\ run.stop

\* ------------------------------------------- telemetry: the log buffer

MaxLines == 3

\* telemetry is configured and init has started the flush thread (lines
\* 20-30); nothing is logged yet. The run record holds, for the log buffer
\* followed line by line:
\*   rpc         what the main thread does: "running" (worker threads log),
\*               the positions of flush(), "returned", "exited" (the process
\*               has ended)
\*   buf         telemetry._buf, the lines numbered as they were logged
\*   logged      number of lines passed to telemetry.log so far
\*   stop        telemetry._stop is set
\*   text        the text flush() took from the buffer
\*   loop        position of _flush_loop in its daemon thread
\*   loop_text   the text the loop's _do_flush took from the buffer
\*   posts       the texts of the log posts made, in order
LogInit ==
    /\ InitRunTasks
    /\ research_tasks = <<>>
    /\ GuardIdle
    /\ PipeIdle
    /\ LockingIdle
    /\ run = [rpc |-> "running",
              buf |-> <<>>,
              logged |-> 0,
              stop |-> FALSE,
              text |-> <<>>,
              loop |-> "top",
              loop_text |-> <<>>,
              posts |-> <<>>]

\* telemetry.log, lines 50-52, called by a thread of the run before flush()
\* is called: under _buf_lock the line is appended.
LogLine ==
    /\ run.rpc = "running"
    /\ run.logged < MaxLines
    /\ run' = [run EXCEPT !.buf = Append(@, run.logged + 1), !.logged = @ + 1]
    /\ UNCHANGED <<runTasksVars, guard, pipe, locking>>

\* run_pipeline, line 277: telemetry.flush() is called.
FlushCalled ==
    /\ run.rpc = "running"
    /\ run' = [run EXCEPT !.rpc = "flush_take"]
    /\ UNCHANGED <<runTasksVars, guard, pipe, locking>>

\* _do_flush, lines 40-46, called by flush (line 73): under _buf_lock, an
\* empty buffer ends the call; otherwise the text is taken and the buffer
\* cleared.
FlushTakes ==
    /\ run.rpc = "flush_take"
    /\ run' = IF run.buf = <<>>
                THEN [run EXCEPT !.rpc = "flush_stop"]
                ELSE [run EXCEPT !.text = run.buf, !.buf = <<>>, !.rpc = "flush_post"]
    /\ UNCHANGED <<runTasksVars, guard, pipe, locking>>

\* _do_flush, line 47, and _post: the text is posted, outside the lock; a
\* failure of requests.post is caught and printed.
FlushPosts ==
    /\ run.rpc = "flush_post"
    /\ run' = [run EXCEPT !.posts = Append(@, run.text), !.rpc = "flush_stop"]
    /\ UNCHANGED <<runTasksVars, guard, pipe, locking>>

\* flush, line 74: _stop.set(); flush returns, and run_pipeline with it.
FlushSetsStop ==
    /\ run.rpc = "flush_stop"
    /\ run' = [run EXCEPT !.stop = TRUE, !.rpc = "returned"]
    /\ UNCHANGED <<runTasksVars, guard, pipe, locking>>

\* main, line 288, and telemetry.init, line 29: run_pipeline has returned
\* and the process ends; the flush thread is a daemon thread, which is not
\* waited for and ends with the process wherever it is.
ProcessExits ==
    /\ run.rpc = "returned"
    /\ run' = [run EXCEPT !.rpc = "exited",
                          !.loop = IF @ = "ended" THEN @ ELSE "killed"]
    /\ UNCHANGED <<runTasksVars, guard, pipe, locking>>

\* _flush_loop, line 34: the loop condition.
LoopTests ==
    /\ run.rpc # "exited"
    /\ run.loop = "top"
    /\ run' = [run EXCEPT !.loop = IF run.stop THEN "ended" ELSE "wait"]
    /\ UNCHANGED <<runTasksVars, guard, pipe, locking>>

\* _flush_loop, line 35: _stop.wait(FLUSH_INTERVAL) returns, at the end of
\* the interval or because _stop is set.
LoopWakes ==
    /\ run.rpc # "exited"
    /\ run.loop = "wait"
    /\ run' = [run EXCEPT !.loop = "take"]
    /\ UNCHANGED <<runTasksVars, guard, pipe, locking>>

\* _do_flush, lines 40-46, called by the loop (line 36).
LoopTakes ==
    /\ run.rpc # "exited"
    /\ run.loop = "take"
    /\ run' = IF run.buf = <<>>
                THEN [run EXCEPT !.loop = "top"]
                ELSE [run EXCEPT !.loop_text = run.buf, !.buf = <<>>, !.loop = "post"]
    /\ UNCHANGED <<runTasksVars, guard, pipe, locking>>

\* _do_flush, line 47, called by the loop.
LoopPosts ==
    /\ run.rpc # "exited"
    /\ run.loop = "post"
    /\ run' = [run EXCEPT !.posts = Append(@, run.loop_text), !.loop = "top"]
    /\ UNCHANGED <<runTasksVars, guard, pipe, locking>>

LogNext ==
    \/ LogLine
    \/ FlushCalled
    \/ FlushTakes
    \/ FlushPosts
    \/ FlushSetsStop
    \/ ProcessExits
    \/ LoopTests
    \/ LoopWakes
    \/ LoopTakes
    \/ LoopPosts

LogSpec == LogInit /\ [][LogNext]_vars

\* The number of log posts whose text holds line n.
PostsWith(n) ==
    Cardinality({k \in 1..Len(run.posts) :
                    \E j \in 1..Len(run.posts[k]) : run.posts[k][j] = n})

\* C36: no line is in two log posts; when the process has ended every line
\* that was logged (all before flush() was called) is in exactly one log
\* post; and after flush() has returned the flush loop, once it has tested
\* its condition, is over.
C36_EveryLineInExactlyOnePost ==
    /\ \A n \in 1..MaxLines : PostsWith(n) <= 1
    /\ run.rpc = "exited" => \A n \in 1..run.logged : PostsWith(n) = 1
    /\ run.rpc = "exited" => run.loop \in {"ended", "killed"}

\* ----------------------------------------------- tracing.parse_jsonl

MaxObjects == 2
MaxReads == 3

\* The stream is written character by character. "{" stands for the
\* opening of an object up to the opening quote of a string value, "}" for
\* the closing quote and brace; "a" and " " are characters of the string
\* value; each object is followed by the line end the PTY produces, CR LF.
ObjectContents == {<<"a">>, <<"a", " ", "a">>}

ObjectLists == UNION {[1..n -> ObjectContents] : n \in 0..MaxObjects}

ObjectText(content) == <<"{">> \o content \o <<"}">>

RECURSIVE StreamOf(_)
StreamOf(objects) ==
    IF objects = <<>> THEN <<>>
    ELSE ObjectText(Head(objects)) \o <<"CR", "LF">> \o StreamOf(Tail(objects))

\* The stream cut into reads after the positions of cuts.
RECURSIVE ReadsOf(_, _, _)
ReadsOf(stream, cuts, from) ==
    IF from > Len(stream) THEN <<>>
    ELSE LET later == {c \in cuts : c >= from}
             to == IF later = {} THEN Len(stream)
                   ELSE CHOOSE c \in later : \A d \in later : c <= d
         IN  <<SubSeq(stream, from, to)>> \o ReadsOf(stream, cuts, to + 1)

\* The ways the PTY splits a stream into at most MaxReads reads.
Splits(stream) ==
    {ReadsOf(stream, cuts, 1) :
        cuts \in {c \in SUBSET (1..(Len(stream) - 1)) : Cardinality(c) < MaxReads}}

\* line.replace("\r", ""), line 22.
RemoveCR(line) == SelectSeq(line, LAMBDA c : c # "CR")

\* line.split("\n"), line 23.
RECURSIVE SplitLF(_)
SplitLF(line) ==
    IF \A i \in 1..Len(line) : line[i] # "LF" THEN <<line>>
    ELSE LET i == CHOOSE j \in 1..Len(line) :
                     line[j] = "LF" /\ \A h \in 1..(j - 1) : line[h] # "LF"
         IN  <<SubSeq(line, 1, i - 1)>> \o SplitLF(SubSeq(line, i + 1, Len(line)))

\* fragment.strip(), line 24: white space is removed at both ends.
RECURSIVE StripWhite(_)
StripWhite(fragment) ==
    IF fragment = <<>> THEN <<>>
    ELSE IF Head(fragment) = " " THEN StripWhite(Tail(fragment))
    ELSE IF fragment[Len(fragment)] = " "
           THEN StripWhite(SubSeq(fragment, 1, Len(fragment) - 1))
    ELSE fragment

\* json.loads(buf), line 29: the text is one complete object, whose value is
\* then the string between the quotes; anything else is a JSONDecodeError.
JsonValid(buf) ==
    /\ Len(buf) >= 2
    /\ buf[1] = "{"
    /\ buf[Len(buf)] = "}"
    /\ \A i \in 2..(Len(buf) - 1) : buf[i] \notin {"{", "}"}

JsonLoads(buf) == SubSeq(buf, 2, Len(buf) - 1)

\* parse_jsonl, lines 23-33: the inner loop over the fragments of one read,
\* from the buffer and the objects yielded so far.
RECURSIVE FeedFragments(_, _, _)
FeedFragments(buf, yielded, fragments) ==
    IF fragments = <<>> THEN [buf |-> buf, yielded |-> yielded]
    ELSE LET fragment == StripWhite(Head(fragments))
         IN  IF fragment = <<>>
               THEN FeedFragments(buf, yielded, Tail(fragments))
             ELSE IF JsonValid(buf \o fragment)
               THEN FeedFragments(<<>>, Append(yielded, JsonLoads(buf \o fragment)),
                                  Tail(fragments))
             ELSE FeedFragments(buf \o fragment, yielded, Tail(fragments))

\* parse_jsonl is called on a process whose output is a stream of at most
\* MaxObjects objects, split into reads in one of the possible ways. The
\* run record holds:
\*   rpc       "reading", or "ended" after the loop
\*   objects   the values of the objects of the stream, in order
\*   reads     the reads still to come from proc.stdout
\*   buf       the local buf
\*   yielded   the objects yielded so far
\*   unparsed  the message of line 35 was printed
ParseInit ==
    /\ InitRunTasks
    /\ research_tasks = <<>>
    /\ GuardIdle
    /\ PipeIdle
    /\ LockingIdle
    /\ run \in UNION {{[rpc |-> "reading",
                        objects |-> objects,
                        reads |-> reads,
                        buf |-> <<>>,
                        yielded |-> <<>>,
                        unparsed |-> FALSE] : reads \in Splits(StreamOf(objects))} :
                          objects \in ObjectLists}

\* parse_jsonl, lines 21-33: one read of proc.stdout.
ParseRead ==
    /\ run.rpc = "reading"
    /\ run.reads # <<>>
    /\ LET fed == FeedFragments(run.buf, run.yielded,
                                SplitLF(RemoveCR(Head(run.reads))))
       IN  run' = [run EXCEPT !.reads = Tail(@),
                              !.buf = fed.buf,
                              !.yielded = fed.yielded]
    /\ UNCHANGED <<runTasksVars, guard, pipe, locking>>

\* parse_jsonl, lines 34-35: the stream has ended.
ParseEnds ==
    /\ run.rpc = "reading"
    /\ run.reads = <<>>
    /\ run' = [run EXCEPT !.rpc = "ended",
                          !.unparsed = StripWhite(run.buf) # <<>>]
    /\ UNCHANGED <<runTasksVars, guard, pipe, locking>>

ParseNext == ParseRead \/ ParseEnds

ParseSpec == ParseInit /\ [][ParseNext]_vars

\* C37: when the stream has ended, the objects parse_jsonl has yielded are
\* the objects of the stream, each once and in stream order, whichever way
\* the stream was split into reads; and every object is yielded from a
\* buffer that was empty before the object's first fragment.
C37_YieldsEveryObjectOnceInOrder ==
    /\ run.rpc = "ended" => run.yielded = run.objects
    /\ run.rpc = "ended" => run.buf = <<>>

\* --------------------------------------- the sandboxes of the agents

MaxAgentCalls == 3

Agents == {"orchestrator", "researcher", "reviewer"}

\* The statements of each run function between the clone and the final
\* sb.terminate(), in order: the calls on the sandbox and the parsing of
\* what they give. None of them is inside a try statement of the run
\* function.
LaterSteps(agent) ==
    IF agent = "researcher"
      THEN <<"git_config", "mkdir", "write_result", "write_output", "agent_exec",
             "observe_agent_events", "git_push_pr", "pr_list">>
    ELSE IF agent = "reviewer"
      THEN <<"git_config", "agent_exec", "observe_agent_events", "pr_view">>
    ELSE <<"git_config", "set_url", "write_project", "commit_project",
           "write_project_workdir", "mkdir", "agent_exec", "observe_agent_events",
           "extract_token_usage", "collect_tasks", "read_tasks", "push_changes">>

\* No run function has been called. The run record holds:
\*   rpc       position in the run function, "idle" between two calls
\*   agent     whose run function is running
\*   step      number of the later steps done
\*   sandbox   the sandbox of the current call: "none", "running", "terminated"
\*   ended     how the last call ended: "returned" or "raised"
\*   calls     calls made so far
\*   left      sandboxes left running by calls that have ended
SandboxInit ==
    /\ InitRunTasks
    /\ research_tasks = <<>>
    /\ GuardIdle
    /\ PipeIdle
    /\ LockingIdle
    /\ run = [rpc |-> "idle", agent |-> "none", step |-> 0, sandbox |-> "none",
              ended |-> "none", calls |-> 0, left |-> 0]

\* The function has ended; a sandbox it created and did not terminate
\* stays running.
EndCall(r, how) ==
    [r EXCEPT !.rpc = "idle",
              !.ended = how,
              !.left = IF r.sandbox = "running" THEN @ + 1 ELSE @]

\* run() is called and gets as far as modal.Sandbox.create.
CallAgentRun(agent) ==
    /\ run.rpc = "idle"
    /\ run.calls < MaxAgentCalls
    /\ agent \in Agents
    /\ run' = [run EXCEPT !.rpc = "create", !.agent = agent, !.step = 0,
                          !.sandbox = "none", !.ended = "none", !.calls = @ + 1]
    /\ UNCHANGED <<runTasksVars, guard, pipe, locking>>

\* modal.Sandbox.create: the sandbox runs, or the call raises.
CreateSandbox(ok) ==
    /\ run.rpc = "create"
    /\ run' = IF ok THEN [run EXCEPT !.sandbox = "running", !.rpc = "clone"]
              ELSE EndCall(run, "raised")
    /\ UNCHANGED <<runTasksVars, guard, pipe, locking>>

\* The clone: on a non-zero exit code the sandbox is terminated and the
\* researcher and the reviewer raise RuntimeError, the orchestrator returns
\* an empty result; sb.exec itself can raise.
CloneRepo(outcome) ==
    /\ run.rpc = "clone"
    /\ outcome \in {"ok", "failed", "raise"}
    /\ run' = IF outcome = "ok" THEN [run EXCEPT !.rpc = "later"]
              ELSE IF outcome = "failed"
                THEN EndCall([run EXCEPT !.sandbox = "terminated"],
                             IF run.agent = "orchestrator" THEN "returned" ELSE "raised")
              ELSE EndCall(run, "raised")
    /\ UNCHANGED <<runTasksVars, guard, pipe, locking>>

\* One of the later statements: it completes, or raises and the exception
\* leaves the run function.
LaterStep(ok) ==
    /\ run.rpc = "later"
    /\ run.step < Len(LaterSteps(run.agent))
    /\ run' = IF ok THEN [run EXCEPT !.step = @ + 1]
              ELSE EndCall(run, "raised")
    /\ UNCHANGED <<runTasksVars, guard, pipe, locking>>

\* The final sb.terminate(); the function returns.
TerminateSandbox ==
    /\ run.rpc = "later"
    /\ run.step = Len(LaterSteps(run.agent))
    /\ run' = EndCall([run EXCEPT !.sandbox = "terminated"], "returned")
    /\ UNCHANGED <<runTasksVars, guard, pipe, locking>>

SandboxNext ==
    \/ \E agent \in Agents : CallAgentRun(agent)
    \/ \E ok \in BOOLEAN : CreateSandbox(ok)
    \/ \E outcome \in {"ok", "failed", "raise"} : CloneRepo(outcome)
    \/ \E ok \in BOOLEAN : LaterStep(ok)
    \/ TerminateSandbox

SandboxSpec == SandboxInit /\ [][SandboxNext]_vars

\* C38: when a run function has returned or raised, the sandbox it created,
\* if any, is terminated: no call leaves a sandbox running.
C38_SandboxTerminatedOnEveryExit ==
    /\ run.ended \in {"returned", "raised"} => run.sandbox # "running"
    /\ run.left = 0

\* -------------------------------------- tools/create_research_task.py

MaxInvocations == 3

\* Topics given to --topic, character by character: letters in both cases,
\* a digit, and the characters sanitize_filename treats specially.
TaskTopics ==
    {<<"a">>, <<"A">>, <<"a", "-", "2">>, <<"a", "_", "2">>, <<"!">>,
     <<" ", "a", "!">>}

\* The characters matched by \w and by \s among those that occur.
WordChars == {"a", "2", "_"}

SpaceChars == {" "}

\* str.strip(), line 12.
StripSpace(s) == StripWhite(s)

\* re.sub(r"[^\w\s-]", "", name), line 13.
DropOthers(s) == SelectSeq(s, LAMBDA c : c \in WordChars \cup SpaceChars \cup {"-"})

RECURSIVE DropSpaceOrUnderscore(_)
DropSpaceOrUnderscore(s) ==
    IF s = <<>> \/ Head(s) \notin SpaceChars \cup {"_"} THEN s
    ELSE DropSpaceOrUnderscore(Tail(s))

\* re.sub(r"[\s_]+", "-", name), line 14: every maximal run of white space
\* and underscores becomes one "-".
RECURSIVE SubSpaceRuns(_)
SubSpaceRuns(s) ==
    IF s = <<>> THEN <<>>
    ELSE IF Head(s) \in SpaceChars \cup {"_"}
           THEN <<"-">> \o SubSpaceRuns(DropSpaceOrUnderscore(Tail(s)))
    ELSE <<Head(s)>> \o SubSpaceRuns(Tail(s))

\* sanitize_filename, lines 10-16.
sanitize_filename(topic) ==
    LET lowered == StripSpace([i \in 1..Len(topic) |-> Lower(topic[i])])
        name == RStrip(LStrip(SubSpaceRuns(DropOthers(lowered))))
    IN  IF name = <<>> THEN <<"unnamed">> ELSE name

\* str(i) for the suffixes that occur.
DecimalDigits == <<"1", "2", "3", "4", "5", "6", "7", "8", "9">>

\* f"{base}-{i}.json" (lines 45 and 47) and base + ".json" (line 38).
SuffixedName(base, i) == base \o <<"-", DecimalDigits[i], ".json">>

PlainName(base) == base \o <<".json">>

\* A variant without the while loop: the suffix is always 2.
FirstFreeSuffixAlwaysTwo(base, names, i) == i

\* main, lines 44-46: i is increased while base-i.json exists.
RECURSIVE FirstFreeSuffix(_, _, _)
FirstFreeSuffix(base, names, i) ==
    IF SuffixedName(base, i) \in names THEN FirstFreeSuffix(base, names, i + 1) ELSE i

\* main, lines 38-47: the path the task is written to, given the names of
\* the files in RESEARCH_TASKS_DIR.
TaskFilePath(topic, names) ==
    LET base == sanitize_filename(topic)
    IN  IF PlainName(base) \in names
          THEN SuffixedName(base, FirstFreeSuffix(base, names, 2))
          ELSE PlainName(base)

\* The research task directory is empty and no invocation was made. The
\* run record holds:
\*   rpc           "tasks"
\*   files         the files of RESEARCH_TASKS_DIR: name, and the invocation
\*                 and topic whose task each holds
\*   invocations   invocations of create_research_task so far
TaskFilesInit ==
    /\ InitRunTasks
    /\ research_tasks = <<>>
    /\ GuardIdle
    /\ PipeIdle
    /\ LockingIdle
    /\ run = [rpc |-> "tasks", files |-> {}, invocations |-> 0]

FileNames(files) == {f.name : f \in files}

\* main, lines 19-56: one invocation; open(filepath, "w") creates the file
\* or truncates the file of that name, and the task is written to it.
CreateResearchTask(topic) ==
    /\ run.rpc = "tasks"
    /\ run.invocations < MaxInvocations
    /\ topic \in TaskTopics
    /\ LET path == TaskFilePath(topic, FileNames(run.files))
       IN  run' = [run EXCEPT
                     !.invocations = @ + 1,
                     !.files = {f \in @ : f.name # path} \cup
                               {[name |-> path, by |-> run.invocations + 1,
                                 topic |-> topic]}]
    /\ UNCHANGED <<runTasksVars, guard, pipe, locking>>

TaskFilesNext == \E topic \in TaskTopics : CreateResearchTask(topic)

TaskFilesSpec == TaskFilesInit /\ [][TaskFilesNext]_vars

\* C39: an invocation of create_research_task run after the others leaves
\* every existing task file as it was and adds one file, named base.json
\* when that name is free and otherwise base-i.json for the smallest i >= 2
\* whose name is free; so the number of task files is the number of
\* invocations, whatever topics reduce to the same name.
C39_NoTaskFileOverwritten ==
    /\ [](Cardinality(run.files) = run.invocations)
    /\ [](Cardinality(FileNames(run.files)) = run.invocations)
    /\ [][/\ run.files \subseteq run.files'
          /\ \E f \in run.files' \ run.files :
                LET base == sanitize_filename(f.topic)
                    names == FileNames(run.files)
                IN  /\ run.files' = run.files \cup {f}
                    /\ f.name \notin names
                    /\ \/ f.name = PlainName(base)
                       \/ /\ PlainName(base) \in names
                          /\ \E i \in 2..9 :
                                /\ f.name = SuffixedName(base, i)
                                /\ \A j \in 2..(i - 1) : SuffixedName(base, j) \in names]_vars

\* C39 witness: three invocations whose topics all reduce to names already
\* taken: "a", then "a_2" (a-2.json), then "A", which finds a.json and
\* a-2.json in use and is written to a-3.json.
C39_Witness ==
    /\ run.invocations = 3
    /\ [name |-> <<"a", ".json">>, by |-> 1, topic |-> <<"a">>] \in run.files
    /\ [name |-> <<"a", "-", "2", ".json">>, by |-> 2, topic |-> <<"a", "_", "2">>]
          \in run.files
    /\ [name |-> <<"a", "-", "3", ".json">>, by |-> 3, topic |-> <<"A">>] \in run.files

====
